---- MODULE Spec2Model ----
(***************************************************************************)
(* The action-driven crawl loop of pkg/engine/headless/crawler: the queue  *)
(* of pending actions, the process-wide dedup set, the crawl graph, the    *)
(* consecutive-failure budget, the crawl deadline (context + timer) and    *)
(* the classification of crawlFn's result.                                 *)
(***************************************************************************)
EXTENDS Integers, Sequences, FiniteSets, TLC

VARIABLES
    options,              \* Crawler.options (the fields the loop reads)
    calls,                \* the number of Crawl calls made on the Crawler, the current one included
    pc,                   \* position of Crawl: "idle", "head", "inflight", "done"
    crawlQueue,           \* Crawler.crawlQueue, a FIFO of actions
    uniqueActions,        \* Crawler.uniqueActions, a set of action hashes
    crawlGraph,           \* Crawler.crawlGraph: [nodes, edges]
    consecutiveFailures,  \* Crawl's local counter
    action,               \* the action dequeued in the current iteration
    pageHeld,             \* the number of pages borrowed from the pool and not yet returned
    ctxDone,              \* the crawl's context is cancelled (deadline)
    timerFired,           \* the crawlTimeout channel holds a value
    err,                  \* what crawlFn returned in the last iteration
    ret,                  \* what Crawl returned: "none" while running
    pageState,            \* the page state the last crawlFn built
    fate,                 \* how far the current iteration took its action
    browser,              \* what crawlFn saw and did before the action: see NoBrowser
    failStreak,           \* history: crawlFn results other than nil since the last nil
    offered,              \* history: every action inserted into the queue, in order
    trace,                \* history: every action dequeued, in order
    text,                 \* the document handed to the normalizer
    call,                 \* which Apply has run on it: "none" before any
    result,               \* what that call returned
    again,                \* what Normalizer.Apply returned for result
    form,                 \* the fields of the FillForm action's form
    formRun,              \* how far the FillForm action is, and what processForm did
    deduplicator,         \* Headless.deduplicator, the keys of the map
    written,              \* history: every result handed to OutputWriter.Write, in order
    callbacks,            \* the RequestCallback invocations in progress, by goroutine
    sessionQueue,         \* crawlSession.Queue of the hybrid engine
    sessionCtx,           \* crawlSession.Ctx: "live" or "cancelled"
    disableRedirects,     \* Options.DisableRedirects
    doPc,                 \* position of the hybrid Do: "pop", "request", "done"
    item,                 \* the item Do popped last
    doRet,                \* what Do returned: "none" while running
    doLog                 \* history: what Do did with each item, in order

\* the variables of the normalizer, which the crawl loop leaves alone
normVars == <<text, call, result, again>>

\* the variables of the form fill
formVars == <<form, formRun>>

\* the variables of the headless engine's request callback
headlessVars == <<deduplicator, written, callbacks>>

\* the variables of the hybrid engine's Do loop
hybridVars == <<sessionQueue, sessionCtx, disableRedirects, doPc, item, doRet, doLog>>

\* the variables of the two engines, which the crawler package leaves alone
engineVars == <<headlessVars, hybridVars>>

vars == <<options, calls, pc, crawlQueue, uniqueActions, crawlGraph, consecutiveFailures,
          action, pageHeld, ctxDone, timerFired, err, ret, pageState, fate, browser,
          failStreak, offered, trace, text, call, result, again, form, formRun,
          deduplicator, written, callbacks, sessionQueue, sessionCtx, disableRedirects,
          doPc, item, doRet, doLog>>

-----------------------------------------------------------------------------
\* Bounds of the model.

\* The value of MaxDepth tried besides 0 (unbounded).
DepthLimit == 1
\* The value of MaxFailureCount tried besides 0 (unbounded).
FailureLimit == 3
\* The length up to which every text over the alphabet is normalized.
MaxTextLen == 3
\* The number of fields up to which every form is tried.
MaxFields == 3
\* The number of Crawl calls made on one Crawler.
MaxCrawls == 2
\* The number of RequestCallback invocations that run concurrently.
NumCallbacks == 2
\* The number of items up to which the hybrid session's queue is filled, over the whole crawl.
MaxItems == 3

\* the elements of a sequence
Range(seq) == {seq[i] : i \in DOMAIN seq}

\* a goroutine that has no RequestCallback invocation to run yet
NoCallback == [pc |-> "idle", rr |-> [isNil |-> TRUE, Request |-> "", Response |-> <<>>],
               newNavigations |-> <<>>, i |-> 0, navigationRequests |-> <<>>, w |-> 0]

\* no RequestCallback has been invoked on the Headless instance
HeadlessIdle ==
    /\ deduplicator = {}
    /\ written = <<>>
    /\ callbacks = [c \in 1..NumCallbacks |-> NoCallback]

\* what item holds before the first Pop
NoItem == [kind |-> "none", URL |-> "", SkipValidation |-> FALSE]

\* no hybrid crawl session exists
HybridIdle ==
    /\ sessionQueue = <<>>
    /\ sessionCtx = "live"
    /\ disableRedirects = FALSE
    /\ doPc = "done"
    /\ item = NoItem
    /\ doRet = "none"
    /\ doLog = <<>>

-----------------------------------------------------------------------------
\* Text, and the logout pattern.

Upper == <<"A","B","C","D","E","F","G","H","I","J","K","L","M",
           "N","O","P","Q","R","S","T","U","V","W","X","Y","Z">>
Lower == <<"a","b","c","d","e","f","g","h","i","j","k","l","m",
           "n","o","p","q","r","s","t","u","v","w","x","y","z">>

\* (?i): a letter matches in either case.
ToLower(c) ==
    IF \E i \in 1..26 : Upper[i] = c
    THEN Lower[CHOOSE i \in 1..26 : Upper[i] = c]
    ELSE c

\* [\s-]? in the pattern: an optional whitespace character or hyphen.
Sep == "[\\s-]?"
SepChars == {" ", "\t", "\n", "\f", "\r", "-"}

\* The alternatives of logoutPattern, in the order of the source.
logoutPattern == <<
    <<"l","o","g",Sep,"o","u","t">>,
    <<"s","i","g","n",Sep,"o","u","t">>,
    <<"s","i","g","n","o","u","t">>,
    <<"d","e","c","o","n","n","e","x","i","o","n">>,
    <<"c","e","r","r","a","r",Sep,"s","e","s","i","o","n">>,
    <<"s","a","i","r">>,
    <<"a","b","m","e","l","d","e","n">>,
    <<"u","i","t","l","o","g","g","e","n">>,
    <<"a","u","s","l","o","g","g","e","n">>,
    <<"e","x","i","t">>,
    <<"d","i","s","c","o","n","n","e","c","t">>,
    <<"t","e","r","m","i","n","a","t","e">>,
    <<"e","n","d",Sep,"s","e","s","s","i","o","n">>,
    <<"s","a","l","i","r">>,
    <<"d","e","s","c","o","n","e","c","t","a","r">>,
    <<"a","f","m","e","l","d","e","n">>,
    <<"w","y","l","o","g","u","j">>,
    <<"l","o","g","o","u","t">>,
    <<"s","i","g","n",Sep,"o","f","f">> >>

RECURSIVE MatchAt(_, _, _, _)
\* alternative alt, from its token j on, matches s at position i
MatchAt(s, i, alt, j) ==
    IF j > Len(alt) THEN TRUE
    ELSE IF alt[j] = Sep
         THEN \/ MatchAt(s, i, alt, j + 1)
              \/ /\ i <= Len(s)
                 /\ s[i] \in SepChars
                 /\ MatchAt(s, i + 1, alt, j + 1)
         ELSE /\ i <= Len(s)
              /\ ToLower(s[i]) = alt[j]
              /\ MatchAt(s, i + 1, alt, j + 1)

\* regexp.MatchString: the pattern matches somewhere in s.
MatchString(s) ==
    \E k \in 1..Len(logoutPattern) :
        \E i \in 1..(Len(s) + 1) : MatchAt(s, i, logoutPattern[k], 1)

-----------------------------------------------------------------------------
\* The site: elements, the navigations a page yields, page fingerprints.

emptyPageHash == "EMPTY_PAGE"
PageIDs == {emptyPageHash, "P1", "P2", "P3"}

SeedURL == "https://site/"
NoElement == "nil"

\* types.HTMLElement: the fields isLogoutPage reads.
Elements == [
    eHome |-> [TextContent |-> <<"H","o","m","e">>,
               href |-> <<"/","h","o","m","e">>],
    eOut  |-> [TextContent |-> <<"L","o","g"," ","O","u","t">>,
               href |-> <<"/","a","c","c","o","u","n","t">>],
    eBye  |-> [TextContent |-> <<"B","y","e">>,
               href |-> <<"/","S","I","G","N","-","o","f","f">>],
    eMore |-> [TextContent |-> <<"M","o","r","e">>,
               href |-> <<>>] ]

\* An action as FindNavigations returns it: OriginID is not set yet.
Nav(type, input, elem, depth) ==
    [Type |-> type, Input |-> input, Element |-> elem, Depth |-> depth, OriginID |-> ""]

nHome == Nav("LeftClick", "", "eHome", 1)
nOut  == Nav("LeftClick", "", "eOut", 1)
nBye  == Nav("LeftClick", "", "eBye", 1)
nMore == Nav("LeftClick", "", "eMore", 2)
nSeed == Nav("LoadURL", SeedURL, NoElement, 1)

\* page.FindNavigations() on a page with this fingerprint; the blank page has none.
FindNavigations(uid) ==
    CASE uid = "P1" -> <<nHome, nHome, nOut>>
      [] uid = "P2" -> <<nBye, nMore, nSeed, nHome>>
      [] uid = "P3" -> <<nOut>>
      [] OTHER      -> <<>>

\* Action.Hash(): a digest of (type, input or selector, originID), collision-free here.
Hash(a) == <<a.Type, a.Input, a.Element, a.OriginID>>

-----------------------------------------------------------------------------
\* Errors crawlFn can return, by the place that returns them.

\* errors a browser call can end with
BrowserErrors == {"NoPointerEventsError", "InvisibleShapeError", "NavigationError",
                  "MaxSleepCountError", "CoveredError", "SiteError"}
\* the places of crawlFn that call the browser, in order
BrowserStages == <<"getPageHash", "navigateBackToStateOrigin", "executeCrawlStateAction",
                   "newPageState", "FindNavigations">>

\* the errors stage st can return; a cancelled context aborts any browser call
StageErrors(st) ==
    BrowserErrors
      \cup (IF ctxDone THEN {"ContextCanceled"} ELSE {})
      \cup (IF st = "navigateBackToStateOrigin"
            THEN {"ErrElementNotVisible", "ErrNoNavigationPossible", "OriginMismatch"}
            ELSE {})
      \cup (IF st = "executeCrawlStateAction" THEN {"ErrElementNotVisible"} ELSE {})

\* a variant that goes on to the executor when the way back to the origin fails
ReachedExecutorDespiteOrigin(st) ==
    st \in {"navigateBackToStateOrigin", "executeCrawlStateAction", "newPageState",
            "LogPageState", "FindNavigations"}

\* the action was handed to executeCrawlStateAction before crawlFn returned
ReachedExecutor(st) ==
    st \in {"executeCrawlStateAction", "newPageState", "LogPageState", "FindNavigations"}

-----------------------------------------------------------------------------
\* Pure parts of Crawl and crawlFn.

isLogoutTable ==
    [e \in DOMAIN Elements |->
        MatchString(Elements[e].TextContent) \/ MatchString(Elements[e].href)]

\* a variant that looks at the text only
isLogoutPageTextOnly(element) == MatchString(Elements[element].TextContent)

isLogoutPage(element) == isLogoutTable[element]

\* the element is a logout control and the navigation is dropped
skipLogout(nav) == nav.Element # NoElement /\ isLogoutPage(nav.Element)

\* a variant that never finds the hash
alreadySeenNever(unique, actionHash) == FALSE

\* the navigation's hash is already in uniqueActions
alreadySeen(unique, actionHash) == actionHash \in unique

\* a variant that inserts at the front of the queue
offerNavigationFront(queue, nav, uid) == <<[nav EXCEPT !.OriginID = uid]>> \o queue

\* a variant that offers the navigation as it was found
offerNavigationAsFound(queue, nav, uid) == Append(queue, nav)

\* nav.OriginID = pageState.UniqueID; crawlQueue.Offer(nav)
offerNavigation(queue, nav, uid) == Append(queue, [nav EXCEPT !.OriginID = uid])

RECURSIVE rangeNavigations(_, _, _, _, _, _)
\* the loop over navigations from index i on: the queue and dedup set it leaves,
\* and the actions it passed to Offer, in the order of the calls
rangeNavigations(navigations, i, queue, unique, uid, offers) ==
    IF i > Len(navigations)
    THEN [queue |-> queue, unique |-> unique, offers |-> offers]
    ELSE LET nav == navigations[i]
             actionHash == Hash(nav)
         IN  IF alreadySeen(unique, actionHash)
             THEN rangeNavigations(navigations, i + 1, queue, unique, uid, offers)
             ELSE IF skipLogout(nav)
             THEN rangeNavigations(navigations, i + 1, queue,
                                   unique \cup {actionHash}, uid, offers)
             ELSE rangeNavigations(navigations, i + 1,
                                   offerNavigation(queue, nav, uid),
                                   unique \cup {actionHash}, uid,
                                   Append(offers, [nav EXCEPT !.OriginID = uid]))

\* crawlFn's view of the page: the hash getPageHash read (current), whether
\* navigateBackToStateOrigin was called (replayed), and the hash of the page shown once
\* the origin step is over (shown); "" for what the iteration has not reached
NoBrowser == [current |-> "", replayed |-> FALSE, shown |-> ""]

\* formRun before the action is executed
NoFormRun == [pc |-> "idle", formFields |-> <<>>, elementMap |-> {}, submitButton |-> 0,
              suggestions |-> <<>>, log |-> <<>>, err |-> "nil"]

\* a variant that never goes back to the origin
needsOriginNever(a, cur) == FALSE

\* the action has an origin and the page shows another state
needsOrigin(a, cur) == a.OriginID # "" /\ a.OriginID # cur

\* navigateBackToStateOrigin when it succeeds: the hash of the page after the replay,
\* verified to be the origin's
navigateBackToStateOrigin(a, cur) == a.OriginID

\* the hash of the page the action is executed from
currentPageHash(a, cur) ==
    IF needsOrigin(a, cur) THEN navigateBackToStateOrigin(a, cur) ELSE cur

\* the origin step is over and the page shows currentPageHash
AfterOrigin(a, cur) ==
    [current |-> cur, replayed |-> needsOrigin(a, cur), shown |-> currentPageHash(a, cur)]

\* what crawlFn has seen and done when browser stage st fails
BrowserAt(st, a, cur) ==
    CASE st = "getPageHash"               -> NoBrowser
      [] st = "navigateBackToStateOrigin" -> [current |-> cur, replayed |-> TRUE, shown |-> ""]
      [] OTHER                            -> AfterOrigin(a, cur)

\* crawlGraph.AddPageState: the node and the edge from its origin
AddPageState(graph, uid, origin) ==
    [nodes |-> graph.nodes \cup {uid},
     edges |-> IF origin = "" THEN graph.edges ELSE graph.edges \cup {<<origin, uid>>}]

\* a variant that allows one failure more
tooManyFailuresOffByOne ==
    options.MaxFailureCount > 0 /\ consecutiveFailures > options.MaxFailureCount

\* the failure check at the head of an iteration
tooManyFailures ==
    options.MaxFailureCount > 0 /\ consecutiveFailures >= options.MaxFailureCount

\* a variant that lets one level more through
tooDeepOffByOne(a) == options.MaxDepth > 0 /\ a.Depth > options.MaxDepth + 1

\* the depth check after the dequeue
tooDeep(a) == options.MaxDepth > 0 /\ a.Depth > options.MaxDepth

\* a variant whose navigation-error branch lacks its continue and falls through
\* to the reset at the end of the loop body
classifyNavFallsThrough(e) ==
    IF e = "nil" THEN "reset"
    ELSE IF e = "ErrNoCrawlingAction" THEN "return nil"
    ELSE IF e = "NavigationError" THEN "reset"
    ELSE "count"

\* what the loop does with crawlFn's result
classify(e) ==
    IF e = "nil" THEN "reset"
    ELSE IF e = "ErrNoCrawlingAction" THEN "return nil"
    ELSE IF e = "ErrElementNotVisible" THEN "count"
    ELSE IF e \in {"NoPointerEventsError", "InvisibleShapeError"} THEN "count"
    ELSE IF e = "NavigationError" THEN "count"
    ELSE IF e = "ErrNoNavigationPossible" THEN "count"
    ELSE IF e = "MaxSleepCountError" THEN "count"
    ELSE "count"

\* a variant of crawlFn without the deferred Put
ReturnedWithoutPut(e) ==
    /\ err' = e
    /\ pageHeld' = pageHeld
    /\ action' = action
    /\ failStreak' = (IF e = "nil" THEN 0
                      ELSE IF e = "ErrNoCrawlingAction" THEN failStreak
                      ELSE failStreak + 1)

\* crawlFn returned e and the page is back in the pool (the deferred Put)
Returned(e) ==
    /\ err' = e
    /\ pageHeld' = pageHeld - 1
    /\ action' = action
    /\ failStreak' = (IF e = "nil" THEN 0
                      ELSE IF e = "ErrNoCrawlingAction" THEN failStreak
                      ELSE failStreak + 1)

\* continue, or the end of the loop body, with the counter set to n
NextIteration(e, n) ==
    /\ Returned(e)
    /\ consecutiveFailures' = n
    /\ pc' = "head"
    /\ ret' = ret

\* return from Crawl inside the error handling
ReturnFromBody(e, value) ==
    /\ Returned(e)
    /\ consecutiveFailures' = consecutiveFailures
    /\ pc' = "done"
    /\ ret' = value

\* a variant that returns a cancelled context's error to the caller
ClassifiedCancelFatal(e) ==
    IF e = "ContextCanceled" THEN ReturnFromBody(e, e)
    ELSE CASE classify(e) = "reset"      -> NextIteration(e, 0)
           [] classify(e) = "return nil" -> ReturnFromBody(e, "nil")
           [] classify(e) = "count"      -> NextIteration(e, consecutiveFailures + 1)

\* a variant whose last branch returns the error instead of counting it
ClassifiedOtherFatal(e) ==
    IF e \in {"nil", "ErrNoCrawlingAction", "ErrElementNotVisible",
              "NoPointerEventsError", "InvisibleShapeError", "NavigationError",
              "ErrNoNavigationPossible", "MaxSleepCountError"}
    THEN CASE classify(e) = "reset"      -> NextIteration(e, 0)
           [] classify(e) = "return nil" -> ReturnFromBody(e, "nil")
           [] classify(e) = "count"      -> NextIteration(e, consecutiveFailures + 1)
    ELSE ReturnFromBody(e, e)

\* the end of an iteration: crawlFn returned e
Classified(e) ==
    CASE classify(e) = "reset"      -> NextIteration(e, 0)
      [] classify(e) = "return nil" -> ReturnFromBody(e, "nil")
      [] classify(e) = "count"      -> NextIteration(e, consecutiveFailures + 1)

\* how far crawlFn took the action
Fate(f) == fate' = f /\ trace' = trace

-----------------------------------------------------------------------------
\* Init: a Crawler after New.

NoAction == [Type |-> "none", Input |-> "", Element |-> NoElement, Depth |-> 0,
             OriginID |-> ""]
NoPageState == [UniqueID |-> "", OriginID |-> "", inScope |-> TRUE]

Init ==
    /\ options \in [MaxDepth : {0, DepthLimit},
                    MaxFailureCount : {0, FailureLimit},
                    MaxCrawlDuration : {0, 1},
                    ScopeValidator : BOOLEAN,
                    EnableDiagnostics : BOOLEAN]
    /\ calls = 1
    /\ HeadlessIdle
    /\ HybridIdle
    /\ pc = "idle"
    /\ crawlQueue = <<>>
    /\ uniqueActions = {}
    /\ crawlGraph = [nodes |-> {}, edges |-> {}]
    /\ consecutiveFailures = 0
    /\ action = NoAction
    /\ pageHeld = 0
    /\ ctxDone = FALSE
    /\ timerFired = FALSE
    /\ err = "nil"
    /\ ret = "none"
    /\ pageState = NoPageState
    /\ fate = "none"
    /\ browser = NoBrowser
    /\ failStreak = 0
    /\ offered = <<>>
    /\ trace = <<>>
    /\ text = <<>>
    /\ call = "none"
    /\ result = <<>>
    /\ again = <<>>
    /\ form = <<>>
    /\ formRun = NoFormRun

-----------------------------------------------------------------------------
\* Crawl(URL) up to the loop.

seedAction == [Type |-> "LoadURL", Input |-> SeedURL, Element |-> NoElement,
               Depth |-> 0, OriginID |-> emptyPageHash]

CrawlStart ==
    /\ pc = "idle"
    /\ crawlQueue' = <<seedAction>>
    /\ offered' = <<seedAction>>
    /\ crawlGraph' = AddPageState([nodes |-> {}, edges |-> {}], emptyPageHash, "")
    /\ consecutiveFailures' = 0
    /\ pc' = "head"
    /\ UNCHANGED <<normVars, formVars, engineVars, calls, browser, options, uniqueActions, action, pageHeld, ctxDone, timerFired,
                   err, ret, pageState, fate, failStreak, trace>>

\* adding the blank state to the graph fails
CrawlStartFails ==
    /\ pc = "idle"
    /\ crawlQueue' = <<seedAction>>
    /\ offered' = <<seedAction>>
    /\ pc' = "done"
    /\ ret' = "GraphError"
    /\ UNCHANGED <<normVars, formVars, engineVars, calls, browser, options, uniqueActions, crawlGraph, consecutiveFailures, action,
                   pageHeld, ctxDone, timerFired, err, pageState, fate, failStreak,
                   trace>>

\* a variant that starts every Crawl call with an empty dedup set
CrawlAgainClears(graphFails) ==
    /\ pc = "done"
    /\ calls < MaxCrawls
    /\ calls' = calls + 1
    /\ uniqueActions' = {}
    /\ crawlQueue' = <<seedAction>>
    /\ offered' = <<seedAction>>
    /\ trace' = <<>>
    /\ crawlGraph' = AddPageState([nodes |-> {}, edges |-> {}], emptyPageHash, "")
    /\ pc' = "head"
    /\ ret' = "none"
    /\ consecutiveFailures' = 0
    /\ failStreak' = 0
    /\ ctxDone' = FALSE
    /\ timerFired' = FALSE
    /\ err' = "nil"
    /\ action' = NoAction
    /\ pageState' = NoPageState
    /\ browser' = NoBrowser
    /\ fate' = "none"
    /\ UNCHANGED <<normVars, formVars, engineVars, options, pageHeld>>

\* Crawl is called again on the Crawler after a call has returned: a new queue with
\* the seed, a new graph, a new context and timer, a counter of 0; uniqueActions is
\* the Crawler's and is left as it is
CrawlAgain(graphFails) ==
    /\ pc = "done"
    /\ calls < MaxCrawls
    /\ calls' = calls + 1
    /\ crawlQueue' = <<seedAction>>
    /\ offered' = <<seedAction>>
    /\ trace' = <<>>
    /\ IF graphFails
       THEN /\ crawlGraph' = [nodes |-> {}, edges |-> {}]
            /\ pc' = "done"
            /\ ret' = "GraphError"
       ELSE /\ crawlGraph' = AddPageState([nodes |-> {}, edges |-> {}], emptyPageHash, "")
            /\ pc' = "head"
            /\ ret' = "none"
    /\ consecutiveFailures' = 0
    /\ failStreak' = 0
    /\ ctxDone' = FALSE
    /\ timerFired' = FALSE
    /\ err' = "nil"
    /\ action' = NoAction
    /\ pageState' = NoPageState
    /\ browser' = NoBrowser
    /\ fate' = "none"
    /\ UNCHANGED <<normVars, formVars, engineVars, options, uniqueActions, pageHeld>>

CrawlAgainStarts == CrawlAgain(FALSE)

CrawlAgainFails == CrawlAgain(TRUE)

-----------------------------------------------------------------------------
\* The deadline: the context's timeout and the time.After timer, both armed
\* only when MaxCrawlDuration > 0, fire on their own.

ContextExpires ==
    /\ pc \in {"head", "inflight"}
    /\ options.MaxCrawlDuration > 0
    /\ ~ctxDone
    /\ ctxDone' = TRUE
    /\ UNCHANGED <<normVars, formVars, engineVars, calls, browser, options, pc, crawlQueue, uniqueActions, crawlGraph,
                   consecutiveFailures, action, pageHeld, timerFired, err, ret,
                   pageState, fate, failStreak, offered, trace>>

TimerExpires ==
    /\ pc \in {"head", "inflight"}
    /\ options.MaxCrawlDuration > 0
    /\ ~timerFired
    /\ timerFired' = TRUE
    /\ UNCHANGED <<normVars, formVars, engineVars, calls, browser, options, pc, crawlQueue, uniqueActions, crawlGraph,
                   consecutiveFailures, action, pageHeld, ctxDone, err, ret,
                   pageState, fate, failStreak, offered, trace>>

-----------------------------------------------------------------------------
\* The head of an iteration, up to the call of crawlFn.

Return(value) ==
    /\ pc' = "done"
    /\ ret' = value
    /\ err' = "nil"
    /\ pageState' = NoPageState
    /\ UNCHANGED <<normVars, formVars, engineVars, calls, browser, options, crawlQueue, uniqueActions, crawlGraph,
                   consecutiveFailures, action, pageHeld, ctxDone, timerFired, fate,
                   failStreak, offered, trace>>

\* a variant that reports the deadline as an error
DeadlineReachedWithError ==
    /\ pc = "head"
    /\ timerFired
    /\ Return("DeadlineExceeded")

\* case <-crawlTimeout
DeadlineReached ==
    /\ pc = "head"
    /\ timerFired
    /\ Return("nil")

FailureBudgetSpent ==
    /\ pc = "head"
    /\ ~timerFired
    /\ tooManyFailures
    /\ Return("nil")

\* a variant whose Get waits for an element instead of reporting an empty queue
QueueDrainedWaits ==
    /\ pc = "head"
    /\ crawlQueue = <<>>
    /\ FALSE
    /\ UNCHANGED vars

\* crawlQueue.Get() finds the queue empty
QueueDrained ==
    /\ pc = "head"
    /\ ~timerFired
    /\ ~tooManyFailures
    /\ crawlQueue = <<>>
    /\ Return("nil")

\* a variant that does not look at the timer before the dequeue
DequeueWithoutSelect ==
    /\ pc = "head"
    /\ ~tooManyFailures
    /\ crawlQueue # <<>>
    /\ action' = Head(crawlQueue)
    /\ crawlQueue' = Tail(crawlQueue)
    /\ trace' = Append(trace, action')
    /\ err' = "nil"
    /\ pageState' = NoPageState
    /\ browser' = NoBrowser

\* crawlQueue.Get(); the previous iteration's locals are gone
Dequeue ==
    /\ pc = "head"
    /\ ~timerFired
    /\ ~tooManyFailures
    /\ crawlQueue # <<>>
    /\ action' = Head(crawlQueue)
    /\ crawlQueue' = Tail(crawlQueue)
    /\ trace' = Append(trace, action')
    /\ err' = "nil"
    /\ pageState' = NoPageState
    /\ browser' = NoBrowser

\* a variant in which a discarded action counts as a success
DiscardDeepResets ==
    /\ Dequeue
    /\ tooDeep(action')
    /\ fate' = "discarded"
    /\ consecutiveFailures' = 0
    /\ UNCHANGED <<normVars, formVars, engineVars, calls, options, pc, uniqueActions, crawlGraph,
                   pageHeld, ctxDone, timerFired, ret, failStreak, offered>>

\* the action is deeper than MaxDepth: continue
DiscardDeep ==
    /\ Dequeue
    /\ tooDeep(action')
    /\ fate' = "discarded"
    /\ UNCHANGED <<normVars, formVars, engineVars, calls, options, pc, uniqueActions, crawlGraph, consecutiveFailures,
                   pageHeld, ctxDone, timerFired, ret, failStreak, offered>>

\* a variant that gives up on the action and goes on with the next one
PoolFailsContinues ==
    /\ Dequeue
    /\ ~tooDeep(action')
    /\ fate' = "no page"
    /\ pc' = "head"
    /\ ret' = ret
    /\ UNCHANGED <<normVars, formVars, engineVars, calls, options, uniqueActions, crawlGraph, consecutiveFailures,
                   pageHeld, ctxDone, timerFired, failStreak, offered>>

\* GetPageFromPool fails
PoolFails ==
    /\ Dequeue
    /\ ~tooDeep(action')
    /\ fate' = "no page"
    /\ pc' = "done"
    /\ ret' = "PoolError"
    /\ UNCHANGED <<normVars, formVars, engineVars, calls, options, uniqueActions, crawlGraph, consecutiveFailures,
                   pageHeld, ctxDone, timerFired, failStreak, offered>>

\* a page is borrowed and bound to the context; crawlFn is called
StartAction ==
    /\ Dequeue
    /\ ~tooDeep(action')
    /\ fate' = "started"
    /\ pageHeld' = pageHeld + 1
    /\ pc' = "inflight"
    /\ UNCHANGED <<normVars, formVars, engineVars, calls, options, uniqueActions, crawlGraph, consecutiveFailures,
                   ctxDone, timerFired, ret, failStreak, offered>>

-----------------------------------------------------------------------------
\* crawlFn and the classification of its result.

\* a variant that adds the page state to the graph before it asks for the navigations
CrawlFnBrowserFailsAfterGraph ==
    /\ pc = "inflight"
    /\ \E i \in 1..Len(BrowserStages), cur \in PageIDs :
         LET st == BrowserStages[i] IN
         /\ st = "navigateBackToStateOrigin" => needsOrigin(action, cur)
         /\ \E e \in StageErrors(st) : Classified(e)
         /\ Fate(IF ReachedExecutor(st) THEN "executed" ELSE "not executed")
         /\ browser' = BrowserAt(st, action, cur)
         /\ crawlGraph' = (IF st = "FindNavigations"
                           THEN AddPageState(crawlGraph, "P1", currentPageHash(action, cur))
                           ELSE crawlGraph)
    /\ UNCHANGED <<normVars, formVars, engineVars, calls, options, crawlQueue, uniqueActions, ctxDone, timerFired,
                   pageState, offered>>

\* a browser call of crawlFn fails before any navigation is handled
CrawlFnBrowserFails ==
    /\ pc = "inflight"
    /\ \E i \in 1..Len(BrowserStages), cur \in PageIDs :
         LET st == BrowserStages[i] IN
         /\ st = "navigateBackToStateOrigin" => needsOrigin(action, cur)
         /\ \E e \in StageErrors(st) : Classified(e)
         /\ Fate(IF ReachedExecutor(st) THEN "executed" ELSE "not executed")
         /\ browser' = BrowserAt(st, action, cur)
    /\ UNCHANGED <<normVars, formVars, engineVars, calls, options, crawlQueue, uniqueActions, crawlGraph, ctxDone, timerFired,
                   pageState, offered>>

\* diagnostics.LogAction or LogPageState fails
CrawlFnDiagnosticsFails ==
    /\ pc = "inflight"
    /\ options.EnableDiagnostics
    /\ Classified("DiagnosticsError")
    /\ \E st \in {"LogAction", "LogPageState"}, cur \in PageIDs :
           /\ Fate(IF ReachedExecutor(st) THEN "executed" ELSE "not executed")
           /\ browser' = AfterOrigin(action, cur)
    /\ UNCHANGED <<normVars, formVars, engineVars, calls, options, crawlQueue, uniqueActions, crawlGraph, ctxDone, timerFired,
                   pageState, offered>>

\* the page state crawlFn builds: newPageState, then OriginID = currentPageHash
BuildPageState(uid, cur, inScope) ==
    /\ browser' = AfterOrigin(action, cur)
    /\ pageState' = [UniqueID |-> uid, OriginID |-> currentPageHash(action, cur),
                     inScope |-> inScope]

\* a variant that returns nil whatever the size of the queue
CrawlFnOutOfScopeAlwaysNil ==
    /\ pc = "inflight"
    /\ options.ScopeValidator
    /\ \E uid \in PageIDs, cur \in PageIDs : BuildPageState(uid, cur, FALSE)
    /\ Classified("nil")
    /\ Fate("executed")
    /\ UNCHANGED <<normVars, formVars, engineVars, calls, options, crawlQueue, uniqueActions, crawlGraph, ctxDone, timerFired,
                   offered>>

\* the post-action URL is out of scope: no navigation is collected
CrawlFnOutOfScope ==
    /\ pc = "inflight"
    /\ options.ScopeValidator
    /\ \E uid \in PageIDs, cur \in PageIDs : BuildPageState(uid, cur, FALSE)
    /\ Classified(IF Len(crawlQueue) = 0 THEN "ErrNoCrawlingAction" ELSE "nil")
    /\ Fate("executed")
    /\ UNCHANGED <<normVars, formVars, engineVars, calls, options, crawlQueue, uniqueActions, crawlGraph, ctxDone, timerFired,
                   offered>>

\* navigations are collected and offered; then the graph is updated
CrawlFnCollects(graphFails) ==
    /\ pc = "inflight"
    /\ \E uid \in PageIDs, cur \in PageIDs : BuildPageState(uid, cur, TRUE)
    /\ LET navigations == FindNavigations(pageState'.UniqueID)
           after == rangeNavigations(navigations, 1, crawlQueue, uniqueActions,
                                     pageState'.UniqueID, <<>>)
       IN  /\ crawlQueue' = after.queue
           /\ uniqueActions' = after.unique
           /\ offered' = offered \o after.offers
           /\ IF graphFails
              THEN /\ crawlGraph' = crawlGraph
                   /\ Classified("GraphError")
              ELSE /\ crawlGraph' = AddPageState(crawlGraph, pageState'.UniqueID,
                                                 pageState'.OriginID)
                   /\ Classified(IF Len(navigations) = 0 /\ Len(after.queue) = 0
                                 THEN "ErrNoCrawlingAction" ELSE "nil")
    /\ Fate("executed")
    /\ UNCHANGED <<normVars, formVars, engineVars, calls, options, ctxDone, timerFired>>

CrawlFnDone == CrawlFnCollects(FALSE)

CrawlFnGraphFails == CrawlFnCollects(TRUE)

-----------------------------------------------------------------------------

Next ==
    \/ CrawlStart
    \/ CrawlStartFails
    \/ ContextExpires
    \/ TimerExpires
    \/ DeadlineReached
    \/ FailureBudgetSpent
    \/ QueueDrained
    \/ DiscardDeep
    \/ PoolFails
    \/ StartAction
    \/ CrawlFnBrowserFails
    \/ CrawlFnDiagnosticsFails
    \/ CrawlFnOutOfScope
    \/ CrawlFnDone
    \/ CrawlFnGraphFails

Spec == Init /\ [][Next]_vars

\* A crawl without deadline and without failure budget
InitNoLimits ==
    /\ Init
    /\ options.MaxCrawlDuration = 0
    /\ options.MaxFailureCount = 0

\* the steps such a crawl can take: the timer and the context's timeout are not armed
\* and the failure check never holds
NextNoLimits ==
    \/ CrawlStart
    \/ CrawlStartFails
    \/ QueueDrained
    \/ DiscardDeep
    \/ PoolFails
    \/ StartAction
    \/ CrawlFnBrowserFails
    \/ CrawlFnDiagnosticsFails
    \/ CrawlFnOutOfScope
    \/ CrawlFnDone
    \/ CrawlFnGraphFails

\* A Crawler without limits, scope validator and diagnostics, on which Crawl is called
\* several times
InitRepeat ==
    /\ Init
    /\ options = [MaxDepth |-> 0, MaxFailureCount |-> 0, MaxCrawlDuration |-> 0,
                  ScopeValidator |-> FALSE, EnableDiagnostics |-> FALSE]

NextRepeat ==
    \/ CrawlStart
    \/ CrawlStartFails
    \/ CrawlAgainStarts
    \/ CrawlAgainFails
    \/ QueueDrained
    \/ PoolFails
    \/ StartAction
    \/ CrawlFnBrowserFails
    \/ CrawlFnDone
    \/ CrawlFnGraphFails

SpecRepeat == InitRepeat /\ [][NextRepeat]_vars

\* Every call returns: a step that can be taken is taken in the end (a browser call in
\* flight returns, the loop goes on to its next statement).
SpecNoLimits == InitNoLimits /\ [][NextNoLimits]_vars /\ WF_vars(NextNoLimits)

-----------------------------------------------------------------------------
\* Texts are sequences of characters; a character the notation lacks is written by its
\* code point ("U+20AC"). Patterns are matched as Go's regexp package matches them:
\* the leftmost match, alternatives and repetitions tried in order of preference.

Digit == {"0","1","2","3","4","5","6","7","8","9"}
Letter == {Upper[i] : i \in 1..26} \cup {Lower[i] : i \in 1..26}
HexDigit == Digit \cup {"a","b","c","d","e","f","A","B","C","D","E","F"}
\* \w
WordChar == Letter \cup Digit \cup {"_"}
\* \s
WhiteSpace == {" ", "\t", "\n", "\f", "\r"}

\* the forms of a pattern: a character class, \b, a sequence, an alternation and a
\* greedy repetition sub{lo,hi}, with hi = -1 for no upper limit
Set(S) == [op |-> "set", set |-> S]
WordBoundary == [op |-> "b"]
Cat(subs) == [op |-> "cat", subs |-> subs]
Alt(subs) == [op |-> "alt", subs |-> subs]
Rep(sub, lo, hi) == [op |-> "rep", sub |-> sub, lo |-> lo, hi |-> hi]
Lit(str) == Cat([i \in 1..Len(str) |-> Set({str[i]})])

IsWordChar(s, i) == i >= 1 /\ i <= Len(s) /\ s[i] \in WordChar

RECURSIVE RunEnd(_, _, _)
\* the first position from i on whose character is not in S
RunEnd(s, i, S) ==
    IF i <= Len(s) /\ s[i] \in S THEN RunEnd(s, i + 1, S) ELSE i

\* the ends of a repetition of a character class: the longest run first
RunEnds(s, i, S, lo, hi) ==
    LET avail == RunEnd(s, i, S) - i
        most == IF hi < 0 \/ avail < hi THEN avail ELSE hi
    IN  IF most < lo THEN <<>> ELSE [k \in 1..(most - lo + 1) |-> i + most - k + 1]

RECURSIVE Ends(_, _, _), EndsAll(_, _, _, _), AltEnds(_, _, _, _), CatEnds(_, _, _, _),
          RepEnds(_, _, _, _, _), RepAll(_, _, _, _, _, _)

\* the positions after a match of re that starts at position i of s, the preferred first
Ends(re, s, i) ==
    CASE re.op = "set" -> IF i <= Len(s) /\ s[i] \in re.set THEN <<i + 1>> ELSE <<>>
      [] re.op = "b"   -> IF IsWordChar(s, i - 1) # IsWordChar(s, i) THEN <<i>> ELSE <<>>
      [] re.op = "cat" -> CatEnds(re.subs, 1, s, <<i>>)
      [] re.op = "alt" -> AltEnds(re.subs, 1, s, i)
      [] re.op = "rep" -> IF re.sub.op = "set"
                          THEN RunEnds(s, i, re.sub.set, re.lo, re.hi)
                          ELSE RepEnds(re.sub, s, i, re.lo, re.hi)

EndsAll(re, s, starts, j) ==
    IF j > Len(starts) THEN <<>>
    ELSE Ends(re, s, starts[j]) \o EndsAll(re, s, starts, j + 1)

AltEnds(subs, k, s, i) ==
    IF k > Len(subs) THEN <<>>
    ELSE Ends(subs[k], s, i) \o AltEnds(subs, k + 1, s, i)

CatEnds(subs, k, s, starts) ==
    IF k > Len(subs) \/ starts = <<>> THEN starts
    ELSE CatEnds(subs, k + 1, s, EndsAll(subs[k], s, starts, 1))

RepEnds(sub, s, i, lo, hi) ==
    IF hi = 0 THEN <<i>>
    ELSE LET more == SelectSeq(Ends(sub, s, i), LAMBDA e : e > i)
         IN  RepAll(sub, s, more, 1, IF lo > 0 THEN lo - 1 ELSE 0,
                    IF hi > 0 THEN hi - 1 ELSE hi)
               \o (IF lo = 0 THEN <<i>> ELSE <<>>)

RepAll(sub, s, starts, j, lo, hi) ==
    IF j > Len(starts) THEN <<>>
    ELSE RepEnds(sub, s, starts[j], lo, hi) \o RepAll(sub, s, starts, j + 1, lo, hi)

\* the end of the match of re at position i, or 0 when re does not match there
MatchEnd(re, s, i) ==
    LET ends == Ends(re, s, i) IN IF ends = <<>> THEN 0 ELSE ends[1]

\* the least number of a non-empty set of numbers
Min(S) == CHOOSE i \in S : \A j \in S : i <= j

RECURSIVE Concat(_, _, _)
\* pieces[lo] \o ... \o pieces[hi]
Concat(pieces, lo, hi) ==
    IF lo > hi THEN <<>>
    ELSE IF lo = hi THEN pieces[lo]
    ELSE Concat(pieces, lo, (lo + hi) \div 2) \o Concat(pieces, (lo + hi) \div 2 + 1, hi)

RECURSIVE Taken(_, _, _)
\* the match that starts at i is one ReplaceAllString replaces: matches are taken from
\* the left and a match that starts inside a taken one is passed over
Taken(ends, starts, i) ==
    \A j \in starts : (j < i /\ ends[j] > i) => ~Taken(ends, starts, j)

\* regexp.ReplaceAllString for a pattern that matches no empty string
ReplaceAllString(re, src, repl) ==
    LET n == Len(src)
        ends == SubSeq([i \in 1..n |-> MatchEnd(re, src, i)], 1, n)
        starts == {i \in 1..n : ends[i] > i}
        taken == {i \in starts : Taken(ends, starts, i)}
    IN  IF taken = {} THEN src
        ELSE Concat([i \in 1..n |->
                        IF i \in taken THEN repl
                        ELSE IF \E j \in taken : j < i /\ i < ends[j] THEN <<>>
                        ELSE <<src[i]>>],
                    1, n)

-----------------------------------------------------------------------------
\* The text normalizer.

\* the runes of [\$€£¥]
CurrencySymbols == {"$", "U+20AC", "U+00A3", "U+00A5"}

emailAddress ==
    Cat(<<WordBoundary,
          Rep(Set(Letter \cup Digit \cup {".", "_", "%", "+", "-"}), 1, -1),
          Set({"@"}),
          Rep(Set(Letter \cup Digit \cup {".", "-"}), 1, -1),
          Set({"."}),
          Rep(Set(Letter), 2, -1),
          WordBoundary>>)

\* 25[0-5]|2[0-4]\d|1?\d?\d
octet ==
    Alt(<<Cat(<<Set({"2"}), Set({"5"}), Set({"0","1","2","3","4","5"})>>),
          Cat(<<Set({"2"}), Set({"0","1","2","3","4"}), Set(Digit)>>),
          Cat(<<Rep(Set({"1"}), 0, 1), Rep(Set(Digit), 0, 1), Set(Digit)>>)>>)

\* a variant whose octets are any one to three digits
ipAddressAnyOctet ==
    Cat(<<WordBoundary, Rep(Set(Digit), 1, 3),
          Rep(Cat(<<Set({"."}), Rep(Set(Digit), 1, 3)>>), 3, 3), WordBoundary>>)

ipAddress ==
    Cat(<<WordBoundary, octet, Rep(Cat(<<Set({"."}), octet>>), 3, 3), WordBoundary>>)

uuid ==
    Cat(<<WordBoundary,
          Rep(Set(HexDigit), 8, 8), Set({"-"}), Rep(Set(HexDigit), 4, 4), Set({"-"}),
          Rep(Set(HexDigit), 4, 4), Set({"-"}), Rep(Set(HexDigit), 4, 4), Set({"-"}),
          Rep(Set(HexDigit), 12, 12),
          WordBoundary>>)

relativeDates ==
    Cat(<<WordBoundary,
          Rep(Set(Digit), 1, 2), Set(WhiteSpace),
          Alt(<<Cat(<<Lit(<<"d","a","y">>), Rep(Set({"s"}), 0, 1)>>),
                Cat(<<Lit(<<"w","e","e","k">>), Rep(Set({"s"}), 0, 1)>>),
                Cat(<<Lit(<<"m","o","n","t","h">>), Rep(Set({"s"}), 0, 1)>>),
                Cat(<<Lit(<<"y","e","a","r">>), Rep(Set({"s"}), 0, 1)>>)>>),
          Set(WhiteSpace),
          Alt(<<Lit(<<"a","g","o">>),
                Cat(<<Lit(<<"f","r","o","m">>), Rep(Set(WhiteSpace), 1, -1),
                      Lit(<<"n","o","w">>)>>)>>),
          WordBoundary>>)

priceAmounts ==
    Cat(<<Set(CurrencySymbols), Rep(Set(WhiteSpace), 0, -1), Rep(Set(Digit), 1, -1),
          Rep(Cat(<<Set({"."}), Rep(Set(Digit), 1, 2)>>), 0, 1),
          WordBoundary>>)

phoneNumbers ==
    Cat(<<WordBoundary, Rep(Set({"+"}), 0, 1), Rep(Set(Digit), 7, 15), WordBoundary>>)

ssnNumbers ==
    Cat(<<WordBoundary, Rep(Set(Digit), 3, 3), Set({"-"}), Rep(Set(Digit), 2, 2),
          Set({"-"}), Rep(Set(Digit), 4, 4), WordBoundary>>)

timestampRegex ==
    Cat(<<WordBoundary,
          Alt(<<Cat(<<Rep(Set(Digit), 4, 4), Set({"-"}), Rep(Set(Digit), 2, 2),
                      Set({"-"}), Rep(Set(Digit), 2, 2)>>),
                Cat(<<Rep(Cat(<<Rep(Set(Digit), 2, 2), Set({"/"})>>), 2, 2),
                      Rep(Set(Digit), 4, 4)>>)>>),
          Set(WhiteSpace),
          Cat(<<Rep(Set(Digit), 2, 2), Set({":"}), Rep(Set(Digit), 2, 2), Set({":"}),
                Rep(Set(Digit), 2, 2)>>),
          WordBoundary>>)

DefaultTextPatterns ==
    <<emailAddress, ipAddress, uuid, relativeDates, priceAmounts, phoneNumbers,
      ssnNumbers, timestampRegex>>

\* the further date and time patterns NewTextNormalizer appends: none here
dateTimePatterns == <<>>

\* NewTextNormalizer: the patterns of a TextNormalizer, in order
NewTextNormalizer == DefaultTextPatterns \o dateTimePatterns

RECURSIVE applyPatterns(_, _, _)
\* the loop of TextNormalizer.Apply from pattern k on
applyPatterns(patterns, k, txt) ==
    IF k > Len(patterns) THEN txt
    ELSE applyPatterns(patterns, k + 1, ReplaceAllString(patterns[k], txt, <<>>))

TextNormalizer_Apply(txt) == applyPatterns(NewTextNormalizer, 1, txt)

-----------------------------------------------------------------------------
\* normalizeDocument and the full pipeline.

\* the rune a decoder yields for a code that is no printable ASCII character,
\* tab, line feed, form feed or carriage return
OtherRune == "U+FFFD"

\* the characters with the codes 32 to 126
printable ==
    <<" ","!","\"","#","$","%","&","'","(",")","*","+",",","-",".","/","0","1","2","3","4",
      "5","6","7","8","9",":",";","<","=",">","?","@","A","B","C","D","E","F","G","H","I",
      "J","K","L","M","N","O","P","Q","R","S","T","U","V","W","X","Y","Z","[","\\","]","^",
      "_","U+0060","a","b","c","d","e","f","g","h","i","j","k","l","m","n","o","p","q","r",
      "s","t","u","v","w","x","y","z","{","|","}","~">>

\* the character with this code
Chr(code) ==
    IF code >= 32 /\ code <= 126 THEN printable[code - 31]
    ELSE IF code = 9 THEN "\t"
    ELSE IF code = 10 THEN "\n"
    ELSE IF code = 12 THEN "\f"
    ELSE IF code = 13 THEN "\r"
    ELSE OtherRune

hexDigits == <<"0","1","2","3","4","5","6","7","8","9","a","b","c","d","e","f">>

\* the value of a hexadecimal digit
HexVal(c) == (CHOOSE v \in 1..16 : hexDigits[v] = ToLower(c)) - 1

RECURSIVE NumVal(_, _, _, _, _)
\* the value of the digits s[i..j-1] in this base, capped above every code that is kept
NumVal(s, i, j, base, acc) ==
    IF i >= j THEN acc
    ELSE NumVal(s, i + 1, j, base,
                IF acc > 1114111 THEN acc ELSE acc * base + HexVal(s[i]))

\* strings.ToLower
ToLowerString(s) == [i \in 1..Len(s) |-> ToLower(s[i])]

\* fmt.Sprintf("%x", value) for a value below 256
FormatHex(value) ==
    IF value < 16 THEN <<hexDigits[value + 1]>>
    ELSE <<hexDigits[(value \div 16) + 1], hexDigits[(value % 16) + 1]>>

\* "\xHH" becomes the entity "&#xh;"
replaceHexEscapeSequence(match) ==
    <<"&", "#", "x">> \o FormatHex(NumVal(match, 3, 5, 16, 0)) \o <<";">>

\* \\x[0-9a-fA-F]{2} matches at position i
hexEscapeAt(s, i) ==
    /\ i >= 1 /\ i + 3 <= Len(s)
    /\ s[i] = "\\" /\ s[i + 1] = "x"
    /\ s[i + 2] \in HexDigit /\ s[i + 3] \in HexDigit

\* every match of the pattern is replaced; no match holds the start of another
convertHexEscapeSequencesToEntities(input) ==
    Concat([i \in 1..Len(input) |->
               IF hexEscapeAt(input, i)
               THEN replaceHexEscapeSequence(SubSeq(input, i, i + 3))
               ELSE IF \E j \in (i - 3)..(i - 1) : hexEscapeAt(input, j) THEN <<>>
               ELSE <<input[i]>>],
           1, Len(input))

\* the named entities decoded here; texts of the model hold no other name
namedEntities ==
    << [name |-> <<"a","m","p",";">>, rune |-> "&"],
       [name |-> <<"l","t",";">>, rune |-> "<"],
       [name |-> <<"g","t",";">>, rune |-> ">"],
       [name |-> <<"q","u","o","t",";">>, rune |-> "\""],
       [name |-> <<"a","p","o","s",";">>, rune |-> "'"] >>

HasPrefixAt(s, i, p) == i + Len(p) - 1 <= Len(s) /\ SubSeq(s, i, i + Len(p) - 1) = p

\* the entity that starts at the "&" at position i: the rune it stands for and the
\* position after it; a "&" that starts no entity stands for itself
unescapeEntity(s, i) ==
    IF i + 1 <= Len(s) /\ s[i + 1] = "#"
    THEN LET hex == i + 2 <= Len(s) /\ s[i + 2] \in {"x", "X"}
             from == IF hex THEN i + 3 ELSE i + 2
             to == RunEnd(s, from, IF hex THEN HexDigit ELSE Digit)
             code == NumVal(s, from, to, IF hex THEN 16 ELSE 10, 0)
         IN  IF to = from THEN [rune |-> "&", next |-> i + 1]
             ELSE [rune |-> Chr(code),
                   next |-> IF to <= Len(s) /\ s[to] = ";" THEN to + 1 ELSE to]
    ELSE IF \E k \in 1..Len(namedEntities) : HasPrefixAt(s, i + 1, namedEntities[k].name)
    THEN LET k == CHOOSE n \in 1..Len(namedEntities) :
                      HasPrefixAt(s, i + 1, namedEntities[n].name)
         IN  [rune |-> namedEntities[k].rune, next |-> i + 1 + Len(namedEntities[k].name)]
    ELSE [rune |-> "&", next |-> i + 1]

\* html.UnescapeString: every "&" is decoded; no entity holds the "&" of another
UnescapeString(s) ==
    Concat([i \in 1..Len(s) |->
               IF s[i] = "&" THEN <<unescapeEntity(s, i).rune>>
               ELSE IF \E j \in 1..(i - 1) : s[j] = "&" /\ unescapeEntity(s, j).next > i
               THEN <<>>
               ELSE <<s[i]>>],
           1, Len(s))

\* html.EscapeString, which the serializer applies to a text node
EscapeString(s) ==
    LET esc(c) == CASE c = "&"  -> <<"&","a","m","p",";">>
                    [] c = "'"  -> <<"&","#","3","9",";">>
                    [] c = "<"  -> <<"&","l","t",";">>
                    [] c = ">"  -> <<"&","g","t",";">>
                    [] c = "\"" -> <<"&","#","3","4",";">>
                    [] c = "\r" -> <<"&","#","1","3",";">>
                    [] OTHER    -> <<c>>
    IN  Concat([i \in 1..Len(s) |-> esc(s[i])], 1, Len(s))

\* url.QueryUnescape fails on a "%" that two hexadecimal digits do not follow
validEscapes(s) ==
    \A i \in 1..Len(s) :
        s[i] = "%" => (i + 2 <= Len(s) /\ s[i + 1] \in HexDigit /\ s[i + 2] \in HexDigit)

\* url.QueryUnescape: the decoded text ("%HH" is a byte, "+" a space), or ok = FALSE
QueryUnescape(s) ==
    IF validEscapes(s)
    THEN [ok |-> TRUE,
          value |-> Concat([i \in 1..Len(s) |->
                               IF s[i] = "%" THEN <<Chr(NumVal(s, i + 1, i + 3, 16, 0))>>
                               ELSE IF \E j \in (i - 2)..(i - 1) : j >= 1 /\ s[j] = "%"
                               THEN <<>>
                               ELSE IF s[i] = "+" THEN <<" ">>
                               ELSE <<s[i]>>],
                           1, Len(s))]
    ELSE [ok |-> FALSE, value |-> <<>>]

\* [\r\n]+|\s+
whiteSpacesRegex == Alt(<<Rep(Set({"\r", "\n"}), 1, -1), Rep(Set(WhiteSpace), 1, -1)>>)

\* strings.Trim(s, cutset)
Trim(s, cutset) ==
    LET keep == {i \in 1..Len(s) : s[i] \notin cutset}
    IN  IF keep = {} THEN <<>>
        ELSE SubSeq(s, Min(keep), CHOOSE i \in keep : \A j \in keep : i >= j)

normalizeDocument(txt) ==
    LET lowercased == ToLowerString(txt)
        converted == convertHexEscapeSequencesToEntities(lowercased)
        unescaped == UnescapeString(converted)
        decoded == QueryUnescape(unescaped)
        urlDecoded == IF decoded.ok THEN decoded.value ELSE unescaped
        normalized == ReplaceAllString(whiteSpacesRegex, urlDecoded, <<" ">>)
    IN  Trim(normalized, {" ", "\r", "\n", "\t"})

\* what the serializer writes around the text of a body
htmlOpen ==
    <<"<","h","t","m","l",">","<","h","e","a","d",">","<","/","h","e","a","d",">","<","b",
      "o","d","y",">">>
htmlClose ==
    <<"<","/","b","o","d","y",">","<","/","h","t","m","l",">">>

HasPrefix(s, p) == HasPrefixAt(s, 1, p)
HasSuffix(s, p) == Len(p) <= Len(s) /\ SubSeq(s, Len(s) - Len(p) + 1, Len(s)) = p

\* the text node of the body of a document that has no markup around its text: what
\* the HTML parser makes of it
bodyText(content) ==
    UnescapeString(IF HasPrefix(content, htmlOpen) /\ HasSuffix(content, htmlClose)
                   THEN SubSeq(content, Len(htmlOpen) + 1, Len(content) - Len(htmlClose))
                   ELSE content)

\* doc.Html(): the document serialized
renderHtml(body) == htmlOpen \o EscapeString(body) \o htmlClose

\* DOMNormalizer.Apply: parse and serialize; such a document holds nothing it removes
DOMNormalizer_Apply(content) == renderHtml(bodyText(content))

\* stripTextContent: the body is none of the elements whose text nodes are removed
stripTextContent(content) == renderHtml(bodyText(content))

\* Normalizer.Apply
Normalizer_Apply(txt) ==
    LET first == normalizeDocument(txt)
        firstpass == DOMNormalizer_Apply(first)
        secondpass == stripTextContent(firstpass)
        thirdpass == TextNormalizer_Apply(secondpass)
        fourthpass == normalizeDocument(thirdpass)
    IN  fourthpass

-----------------------------------------------------------------------------
\* The normalizer on its own: a text is drawn, then Normalizer.Apply runs on it and
\* again on its result, or TextNormalizer.Apply runs on it.

\* the text of TestTextNormalizer_AllPatterns
testText ==
    <<"\n","\t","\t","C","o","n","t","a","c","t"," ","u","s"," ","a","t"," ","t","e","s",
      "t","@","e","x","a","m","p","l","e",".","c","o","m"," ","o","r"," ","a","d","m","i",
      "n","@","S","I","T","E",".","O","R","G"," ","f","o","r"," ","s","u","p","p","o","r",
      "t",".","\n","\t","\t","S","e","r","v","e","r"," ","I","P",":"," ","1","9","2",".",
      "1","6","8",".","1",".","1"," ","a","n","d"," ","p","u","b","l","i","c"," ","I","P",
      ":"," ","8",".","8",".","8",".","8","\n","\t","\t","I","n","v","a","l","i","d"," ",
      "I","P","s"," ","s","h","o","u","l","d"," ","n","o","t"," ","m","a","t","c","h",":",
      " ","9","9","9",".","9","9","9",".","9","9","9",".","9","9","9"," ","o","r"," ","3",
      "0","0",".","4","0","0",".","5","0","0",".","6","0","0","\n","\t","\t","U","U","I",
      "D",":"," ","5","5","0","e","8","4","0","0","-","e","2","9","b","-","4","1","d","4",
      "-","a","7","1","6","-","4","4","6","6","5","5","4","4","0","0","0","0","\n","\t",
      "\t","R","e","l","a","t","i","v","e"," ","d","a","t","e","s",":"," ","5"," ","d","a",
      "y","s"," ","a","g","o",","," ","2"," ","w","e","e","k","s"," ","f","r","o","m"," ",
      "n","o","w",","," ","1","0"," ","m","o","n","t","h","s"," ","a","g","o","\n","\t",
      "\t","P","r","i","c","e","s",":"," ","$","1","9",".","9","9",","," ","U+20AC","5","0",
      ".","0","0",","," ","U+00A3","2","5",".","5","0",","," ","U+00A5","1","0","0","0",
      "\n","\t","\t","P","h","o","n","e"," ","n","u","m","b","e","r","s",":"," ","+","1",
      "2","3","4","5","6","7","8","9","0",","," ","+","4","4","7","9","1","1","1","2","3",
      "4","5","6",","," ","+","3","3","1","2","3","4","5","6","7","8","9","\n","\t","\t",
      "S","S","N",":"," ","1","2","3","-","4","5","-","6","7","8","9",","," ","9","8","7",
      "-","6","5","-","4","3","2","1","\n","\t","\t","T","i","m","e","s","t","a","m","p",
      "s",":"," ","2","0","2","3","-","1","2","-","2","5"," ","1","4",":","3","0",":","0",
      "0",","," ","1","2","/","2","5","/","2","0","2","3"," ","0","9",":","1","5",":","3",
      "0","\n","\t">>

\* the tokens the test expects to be gone from the result
removedTokens ==
    { <<"t","e","s","t","@","e","x","a","m","p","l","e",".","c","o","m">>,
      <<"a","d","m","i","n","@","S","I","T","E",".","O","R","G">>,
      <<"1","9","2",".","1","6","8",".","1",".","1">>,
      <<"8",".","8",".","8",".","8">>,
      <<"5","5","0","e","8","4","0","0","-","e","2","9","b","-","4","1","d","4","-","a","7",
        "1","6","-","4","4","6","6","5","5","4","4","0","0","0","0">>,
      <<"5"," ","d","a","y","s"," ","a","g","o">>,
      <<"2"," ","w","e","e","k","s"," ","f","r","o","m"," ","n","o","w">>,
      <<"1","0"," ","m","o","n","t","h","s"," ","a","g","o">>,
      <<"$","1","9",".","9","9">>,
      <<"U+20AC","5","0",".","0","0">>,
      <<"U+00A3","2","5",".","5","0">>,
      <<"U+00A5","1","0","0","0">>,
      <<"+","1","2","3","4","5","6","7","8","9","0">>,
      <<"+","4","4","7","9","1","1","1","2","3","4","5","6">>,
      <<"+","3","3","1","2","3","4","5","6","7","8","9">>,
      <<"1","2","3","-","4","5","-","6","7","8","9">>,
      <<"9","8","7","-","6","5","-","4","3","2","1">>,
      <<"2","0","2","3","-","1","2","-","2","5"," ","1","4",":","3","0",":","0","0">>,
      <<"1","2","/","2","5","/","2","0","2","3"," ","0","9",":","1","5",":","3","0">> }

\* the dotted quads the test expects to be left in the result
keptTokens ==
    { <<"9","9","9",".","9","9","9",".","9","9","9",".","9","9","9">>,
      <<"3","0","0",".","4","0","0",".","5","0","0",".","6","0","0">> }

\* further texts: a twice-encoded character, a token between words, an escape, digits
otherTexts ==
    { <<"%","2","5","4","4">>,
      <<"K","%","2","5","2","0","K">>,
      <<"5"," ","a","@","b",".","c","c"," ","d","a","y","s"," ","a","g","o">>,
      <<"\\","x","4","b"," ","&","a","m","p",";"," ","K">>,
      <<"1","2","3","4","5","6","7","8","9","0">>,
      <<"a","\n"," ","b">> }

\* the characters of the short texts
Alphabet == {"%", "2", "5", "K", "+"}

\* every text over Alphabet of at most MaxTextLen characters
ShortTexts == UNION {[1..n -> Alphabet] : n \in 0..MaxTextLen}

Texts == ShortTexts \cup {testText} \cup removedTokens \cup keptTokens \cup otherTexts

crawlVars == <<options, calls, pc, crawlQueue, uniqueActions, crawlGraph, consecutiveFailures,
               action, pageHeld, ctxDone, timerFired, err, ret, pageState, fate,
               browser, failStreak, offered, trace>>

InitNormalizer ==
    /\ options = [MaxDepth |-> 0, MaxFailureCount |-> 0, MaxCrawlDuration |-> 0,
                  ScopeValidator |-> FALSE, EnableDiagnostics |-> FALSE]
    /\ calls = 1
    /\ HeadlessIdle
    /\ HybridIdle
    /\ pc = "idle"
    /\ crawlQueue = <<>>
    /\ uniqueActions = {}
    /\ crawlGraph = [nodes |-> {}, edges |-> {}]
    /\ consecutiveFailures = 0
    /\ action = NoAction
    /\ pageHeld = 0
    /\ ctxDone = FALSE
    /\ timerFired = FALSE
    /\ err = "nil"
    /\ ret = "none"
    /\ pageState = NoPageState
    /\ fate = "none"
    /\ browser = NoBrowser
    /\ failStreak = 0
    /\ offered = <<>>
    /\ trace = <<>>
    /\ text \in Texts
    /\ call = "none"
    /\ result = <<>>
    /\ again = <<>>
    /\ form = <<>>
    /\ formRun = NoFormRun

\* n.Apply(text) on a Normalizer
NormalizerApply ==
    /\ call = "none"
    /\ call' = "Normalizer.Apply"
    /\ result' = Normalizer_Apply(text)
    /\ UNCHANGED <<crawlVars, formVars, engineVars, text, again>>

\* n.Apply(result): the normalizer on its own result
NormalizerApplyAgain ==
    /\ call = "Normalizer.Apply"
    /\ call' = "Normalizer.Apply twice"
    /\ again' = Normalizer_Apply(result)
    /\ UNCHANGED <<crawlVars, formVars, engineVars, text, result>>

\* n.Apply(text) on a TextNormalizer
TextNormalizerApply ==
    /\ call = "none"
    /\ call' = "TextNormalizer.Apply"
    /\ result' = TextNormalizer_Apply(text)
    /\ UNCHANGED <<crawlVars, formVars, engineVars, text, again>>

NextNormalizer ==
    \/ NormalizerApply
    \/ NormalizerApplyAgain
    \/ TextNormalizerApply

SpecNormalizer == InitNormalizer /\ [][NextNormalizer]_vars

-----------------------------------------------------------------------------
\* Form fill: executeCrawlStateAction on a FillForm action, that is processForm and
\* applyFormSuggestions, and what crawlFn does with the result.

\* A field of the form: the descriptor the action carries (TagName, Type, name as
\* deriveName gives it, XPath) and the live element behind it: whether the XPath
\* resolves, its type attribute ("nil" when it has none), whether reading its tag
\* fails and whether typing into, selecting in or clicking it fails.
Field(tag, type, name, xpath, resolves, typeAttr, evalFails, fails) ==
    [TagName |-> tag, Type |-> type, name |-> name, XPath |-> xpath,
     resolves |-> resolves, typeAttr |-> typeAttr, evalFails |-> evalFails,
     fails |-> fails]

fText        == Field("INPUT", "text", "q", "x", TRUE, "text", FALSE, FALSE)
\* <input name="bare">: the type property is "text", there is no type attribute
fBare        == Field("INPUT", "text", "bare", "x", TRUE, "nil", FALSE, FALSE)
fCheck       == Field("INPUT", "checkbox", "agree", "x", TRUE, "checkbox", FALSE, FALSE)
fTextFails   == Field("INPUT", "text", "bad", "x", TRUE, "text", FALSE, TRUE)
fArea        == Field("TEXTAREA", "textarea", "msg", "x", TRUE, "nil", FALSE, FALSE)
fAreaEval    == Field("TEXTAREA", "textarea", "ta", "x", TRUE, "nil", TRUE, FALSE)
fSelect      == Field("SELECT", "select-one", "sel", "x", TRUE, "nil", FALSE, TRUE)
fSubmit      == Field("INPUT", "submit", "go", "x", TRUE, "submit", FALSE, FALSE)
fSubmitGone  == Field("INPUT", "submit", "gone", "x", FALSE, "submit", FALSE, FALSE)
fInputButton == Field("INPUT", "button", "btn", "x", TRUE, "button", FALSE, FALSE)
fButton      == Field("BUTTON", "submit", "send", "x", TRUE, "submit", FALSE, FALSE)
fButtonFails == Field("BUTTON", "submit", "send2", "x", TRUE, "submit", FALSE, TRUE)
fNoXPath     == Field("INPUT", "text", "nox", "", TRUE, "text", FALSE, FALSE)

FormElements == {fText, fBare, fCheck, fTextFails, fArea, fAreaEval, fSelect, fSubmit,
                 fSubmitGone, fInputButton, fButton, fButtonFails, fNoXPath}

\* the forms tried: up to MaxFields fields
Forms == UNION {[1..n -> FormElements] : n \in 0..MaxFields}

\* the values the suggestion provider gives
SuggestedValues == {"", "v"}

\* a call on the browser: the operation, the field (by position) it is made on, its
\* argument and whether it succeeded
Call(op, el, arg, ok) == [op |-> op, el |-> el, arg |-> arg, ok |-> ok]

\* elementMap[fieldName] = element
SetElement(elementMap, fieldName, el) ==
    IF fieldName = "" THEN elementMap
    ELSE {p \in elementMap : p[1] # fieldName} \cup {<<fieldName, el>>}

\* processForm before any field is handled
NoFields == [formFields |-> <<>>, elementMap |-> {}, submitButton |-> 0, log |-> <<>>]

\* the body of the loop over form.Elements for the field at position i
scanField(fields, i, st) ==
    LET field == fields[i]
        found == [st EXCEPT !.log = Append(@, Call("ElementX", i, field.XPath, field.resolves))]
        asField == [found EXCEPT !.formFields = Append(@, i),
                                 !.elementMap = SetElement(@, field.name, i)]
    IN  IF field.XPath = "" THEN st
        ELSE IF ~field.resolves THEN found
        ELSE CASE field.TagName = "INPUT" ->
                    IF field.Type = "submit" \/ field.Type = "button"
                    THEN IF st.submitButton = 0 /\ field.Type = "submit"
                         THEN [found EXCEPT !.submitButton = i]
                         ELSE found
                    ELSE asField
               [] field.TagName = "TEXTAREA" -> asField
               [] field.TagName = "SELECT" ->
                    [asField EXCEPT !.log = Append(@, Call("Elements", i, "option", TRUE))]
               [] field.TagName = "BUTTON" ->
                    IF field.Type = "submit" /\ st.submitButton = 0
                    THEN [found EXCEPT !.submitButton = i]
                    ELSE found
               [] OTHER -> found

RECURSIVE scanFields(_, _, _)
\* the loop over form.Elements from position i on
scanFields(fields, i, st) ==
    IF i > Len(fields) THEN st
    ELSE scanFields(fields, i + 1, scanField(fields, i, st))

\* the names of the fields handed to the provider, each once, in the order of the fields
RECURSIVE fieldNames(_, _, _, _)
fieldNames(fields, formFields, k, seen) ==
    IF k > Len(formFields) THEN <<>>
    ELSE LET n == fields[formFields[k]].name
         IN  IF n = "" \/ n \in seen
             THEN fieldNames(fields, formFields, k + 1, seen)
             ELSE <<n>> \o fieldNames(fields, formFields, k + 1, seen \cup {n})

RECURSIVE suggestionsFor(_, _)
\* the ordered maps from some of the names, from position k on, to suggested values
suggestionsFor(names, k) ==
    IF k > Len(names) THEN {<<>>}
    ELSE LET rest == suggestionsFor(names, k + 1)
         IN  rest \cup {<<<<names[k], v>>>> \o r : v \in SuggestedValues, r \in rest}

\* utilsformfill.FormFillSuggestions: what the provider may return for these fields
FormFillSuggestions(fields, formFields) ==
    suggestionsFor(fieldNames(fields, formFields, 1, {}), 1)

\* the callback of suggestions.Iterate for one suggestion: the calls it adds to the log
applySuggestion(fields, elementMap, fieldName, value, log) ==
    IF ~(\E p \in elementMap : p[1] = fieldName) \/ value = "" THEN log
    ELSE LET el == (CHOOSE p \in elementMap : p[1] = fieldName)[2]
             element == fields[el]
             evaled == Append(log, Call("Eval", el, "tagName", ~element.evalFails))
             typed == Append(evaled, Call("Attribute", el, "type", TRUE))
         IN  IF element.evalFails THEN evaled
             ELSE CASE element.TagName = "INPUT" ->
                         IF element.typeAttr = "nil" THEN typed
                         ELSE IF element.typeAttr \in {"checkbox", "radio"}
                         THEN IF value = "on" \/ value = fieldName
                              THEN Append(typed, Call("Click", el, "", ~element.fails))
                              ELSE typed
                         ELSE Append(typed, Call("Input", el, value, ~element.fails))
                    [] element.TagName = "TEXTAREA" ->
                         Append(evaled, Call("Input", el, value, ~element.fails))
                    [] element.TagName = "SELECT" ->
                         IF element.fails
                         THEN evaled \o <<Call("Select", el, value, FALSE),
                                          Call("Select", el, <<"[value=]", value>>, FALSE)>>
                         ELSE Append(evaled, Call("Select", el, value, TRUE))
                    [] OTHER -> evaled

RECURSIVE applyFormSuggestionsAborts(_, _, _, _, _)
\* a variant that gives up at the first call that fails
applyFormSuggestionsAborts(fields, elementMap, suggestions, k, log) ==
    IF k > Len(suggestions) THEN log
    ELSE IF \E c \in Range(log) : c.op \in {"Eval", "Input", "Select", "Click"} /\ ~c.ok
    THEN log
    ELSE applyFormSuggestionsAborts(fields, elementMap, suggestions, k + 1,
             applySuggestion(fields, elementMap, suggestions[k][1], suggestions[k][2], log))

RECURSIVE applyFormSuggestions(_, _, _, _, _)
\* suggestions.Iterate from suggestion k on; applyFormSuggestions returns nil always
applyFormSuggestions(fields, elementMap, suggestions, k, log) ==
    IF k > Len(suggestions) THEN log
    ELSE applyFormSuggestions(fields, elementMap, suggestions, k + 1,
             applySuggestion(fields, elementMap, suggestions[k][1], suggestions[k][2], log))

\* a variant in which a later submit control replaces the one chosen
submitClickLast(fields, scanned, log) ==
    LET subs == {i \in 1..Len(fields) :
                    /\ fields[i].XPath # "" /\ fields[i].resolves
                    /\ fields[i].Type = "submit"}
        last == CHOOSE i \in subs : \A j \in subs : j <= i
    IN  IF subs = {} THEN [log |-> log, err |-> "nil"]
        ELSE [log |-> Append(log, Call("Click", last, "", ~fields[last].fails)),
              err |-> IF fields[last].fails THEN "ClickError" ELSE "nil"]

\* the click on the submit button, if one was found, and what processForm returns
submitClick(fields, scanned, log) ==
    IF scanned.submitButton = 0 THEN [log |-> log, err |-> "nil"]
    ELSE LET sb == scanned.submitButton
         IN  [log |-> Append(log, Call("Click", sb, "", ~fields[sb].fails)),
              err |-> IF fields[sb].fails THEN "ClickError" ELSE "nil"]

\* a variant that fills the form whatever the option says
processFormAlways(fields, suggestions) ==
    LET scanned == scanFields(fields, 1, NoFields)
        applied == applyFormSuggestions(fields, scanned.elementMap, suggestions, 1,
                                        scanned.log)
        clicked == submitClick(fields, scanned, applied)
    IN  [pc |-> "returned", formFields |-> scanned.formFields,
         elementMap |-> scanned.elementMap, submitButton |-> scanned.submitButton,
         suggestions |-> suggestions, log |-> clicked.log, err |-> clicked.err]

\* processForm, given what the provider returns
processForm(fields, suggestions) ==
    IF ~options.AutomaticFormFill
    THEN [NoFormRun EXCEPT !.pc = "returned"]
    ELSE LET scanned == scanFields(fields, 1, NoFields)
             applied == applyFormSuggestions(fields, scanned.elementMap, suggestions, 1,
                                             scanned.log)
             clicked == submitClick(fields, scanned, applied)
         IN  [pc |-> "returned", formFields |-> scanned.formFields,
              elementMap |-> scanned.elementMap, submitButton |-> scanned.submitButton,
              suggestions |-> suggestions, log |-> clicked.log, err |-> clicked.err]

InitForm ==
    /\ options \in [MaxDepth : {0}, MaxFailureCount : {0}, MaxCrawlDuration : {0},
                    ScopeValidator : {FALSE}, EnableDiagnostics : {FALSE},
                    AutomaticFormFill : BOOLEAN]
    /\ calls = 1
    /\ HeadlessIdle
    /\ HybridIdle
    /\ pc = "idle"
    /\ crawlQueue = <<>>
    /\ uniqueActions = {}
    /\ crawlGraph = [nodes |-> {}, edges |-> {}]
    /\ consecutiveFailures = 0
    /\ action = NoAction
    /\ pageHeld = 0
    /\ ctxDone = FALSE
    /\ timerFired = FALSE
    /\ err = "nil"
    /\ ret = "none"
    /\ pageState = NoPageState
    /\ fate = "none"
    /\ browser = NoBrowser
    /\ failStreak = 0
    /\ offered = <<>>
    /\ trace = <<>>
    /\ text = <<>>
    /\ call = "none"
    /\ result = <<>>
    /\ again = <<>>
    /\ form \in Forms
    /\ formRun = NoFormRun

\* case types.ActionTypeFillForm: processForm(page, action.Form)
ExecuteFillForm ==
    /\ formRun.pc = "idle"
    /\ \E suggestions \in
            (IF options.AutomaticFormFill
             THEN FormFillSuggestions(form, scanFields(form, 1, NoFields).formFields)
             ELSE {<<>>}) :
           formRun' = processForm(form, suggestions)
    /\ UNCHANGED <<crawlVars, normVars, engineVars, form>>

\* executeCrawlStateAction returned an error: crawlFn returns it
FillFormFailed ==
    /\ formRun.pc = "returned"
    /\ formRun.err # "nil"
    /\ formRun' = [formRun EXCEPT !.pc = "crawlFn returned"]
    /\ UNCHANGED <<crawlVars, normVars, engineVars, form>>

\* executeCrawlStateAction returned nil: crawlFn goes on to newPageState
FillFormDone ==
    /\ formRun.pc = "returned"
    /\ formRun.err = "nil"
    /\ formRun' = [formRun EXCEPT !.pc = "newPageState"]
    /\ UNCHANGED <<crawlVars, normVars, engineVars, form>>

NextForm ==
    \/ ExecuteFillForm
    \/ FillFormFailed
    \/ FillFormDone

SpecForm == InitForm /\ [][NextForm]_vars

-----------------------------------------------------------------------------
\* The request callback of pkg/engine/headless: Headless.Crawl hands the crawler
\* a RequestCallback, which the browser invokes for every request it intercepts, on
\* the goroutine of the interception.  The invocations share Headless.deduplicator,
\* a map whose Get and Set each take the map's lock for the one call, and the
\* OutputWriter.

\* the crawler package and its normalizer and form fill are not in use
CrawlerIdle ==
    /\ options = [MaxDepth |-> 0, MaxFailureCount |-> 0, MaxCrawlDuration |-> 0,
                  ScopeValidator |-> FALSE, EnableDiagnostics |-> FALSE]
    /\ calls = 1
    /\ pc = "idle"
    /\ crawlQueue = <<>>
    /\ uniqueActions = {}
    /\ crawlGraph = [nodes |-> {}, edges |-> {}]
    /\ consecutiveFailures = 0
    /\ action = NoAction
    /\ pageHeld = 0
    /\ ctxDone = FALSE
    /\ timerFired = FALSE
    /\ err = "nil"
    /\ ret = "none"
    /\ pageState = NoPageState
    /\ fate = "none"
    /\ browser = NoBrowser
    /\ failStreak = 0
    /\ offered = <<>>
    /\ trace = <<>>
    /\ text = <<>>
    /\ call = "none"
    /\ result = <<>>
    /\ again = <<>>
    /\ form = <<>>
    /\ formRun = NoFormRun

\* the URLs of the requests the browser makes: the last one is out of scope
RequestURLs == {"https://site/", "https://other/"}

\* the URLs the response parser extracts from a response
LinkURLs == {"https://site/a", "https://site/b"}

\* rr.Request of a result that has no request
NoRequest == ""

\* the closure validateScopeFunc returns, with a ScopeManager that admits the
\* host of the seed
scopeValidator(s) == s \in {"https://site/", "https://site/a", "https://site/b"}

\* the navigations of a response, as ParseResponse returns them: up to two, and
\* the same URL twice where the page links to it twice
Navigations == {<<>>} \cup {<<u>> : u \in LinkURLs}
                  \cup {<<"https://site/a", v>> : v \in LinkURLs}

\* the results the browser hands to the callback
Results ==
    {[isNil |-> TRUE, Request |-> NoRequest, Response |-> <<>>]}
      \cup [isNil : {FALSE}, Request : {NoRequest} \cup RequestURLs, Response : Navigations]

\* the guards of the callback: such a result is dropped
dropped(rr) == rr.isNil \/ rr.Request = NoRequest \/ ~scopeValidator(rr.Request)

\* the callback is invoked with rr and returns at once
RequestCallbackReturns(c) ==
    \E rr \in Results :
        /\ callbacks[c].pc = "idle"
        /\ dropped(rr)
        /\ callbacks' = [callbacks EXCEPT ![c] = [NoCallback EXCEPT !.pc = "returned", !.rr = rr]]
        /\ UNCHANGED <<crawlVars, normVars, formVars, hybridVars, deduplicator, written>>

\* the callback is invoked with rr and enters performAdditionalAnalysis, which
\* parses the response
RequestCallbackParses(c) ==
    \E rr \in Results :
        /\ callbacks[c].pc = "idle"
        /\ ~dropped(rr)
        /\ callbacks' = [callbacks EXCEPT ![c] =
               [NoCallback EXCEPT !.pc = "get", !.rr = rr, !.newNavigations = rr.Response,
                                  !.i = 1]]
        /\ UNCHANGED <<crawlVars, normVars, formVars, hybridVars, deduplicator, written>>

\* performAdditionalAnalysis: h.deduplicator.Get(resp.URL) for the next navigation
deduplicatorGet(c) ==
    LET cb == callbacks[c] IN
    /\ cb.pc = "get"
    /\ cb.i <= Len(cb.newNavigations)
    /\ callbacks' = [callbacks EXCEPT ![c] =
           IF cb.newNavigations[cb.i] \in deduplicator
           THEN [cb EXCEPT !.i = cb.i + 1]
           ELSE [cb EXCEPT !.pc = "set"]]
    /\ UNCHANGED <<crawlVars, normVars, formVars, hybridVars, deduplicator, written>>

\* performAdditionalAnalysis: h.deduplicator.Set(resp.URL), and the append
deduplicatorSet(c) ==
    LET cb == callbacks[c] IN
    /\ cb.pc = "set"
    /\ deduplicator' = deduplicator \cup {cb.newNavigations[cb.i]}
    /\ callbacks' = [callbacks EXCEPT ![c] =
           [cb EXCEPT !.pc = "get", !.i = cb.i + 1,
                      !.navigationRequests = Append(cb.navigationRequests,
                                                    cb.newNavigations[cb.i])]]
    /\ UNCHANGED <<crawlVars, normVars, formVars, hybridVars, written>>

\* performAdditionalAnalysis returns navigationRequests
performAdditionalAnalysisReturns(c) ==
    LET cb == callbacks[c] IN
    /\ cb.pc = "get"
    /\ cb.i > Len(cb.newNavigations)
    /\ callbacks' = [callbacks EXCEPT ![c] = [cb EXCEPT !.pc = "write", !.w = 1]]
    /\ UNCHANGED <<crawlVars, normVars, formVars, hybridVars, deduplicator, written>>

\* the callback writes the next navigation request
WriteNavigation(c) ==
    LET cb == callbacks[c] IN
    /\ cb.pc = "write"
    /\ cb.w <= Len(cb.navigationRequests)
    /\ written' = Append(written, [URL |-> cb.navigationRequests[cb.w], derived |-> TRUE,
                                   by |-> c])
    /\ callbacks' = [callbacks EXCEPT ![c] = [cb EXCEPT !.w = cb.w + 1]]
    /\ UNCHANGED <<crawlVars, normVars, formVars, hybridVars, deduplicator>>

\* the callback writes rr itself, and returns
WriteResult(c) ==
    LET cb == callbacks[c] IN
    /\ cb.pc = "write"
    /\ cb.w > Len(cb.navigationRequests)
    /\ written' = Append(written, [URL |-> cb.rr.Request, derived |-> FALSE, by |-> c])
    /\ callbacks' = [callbacks EXCEPT ![c] = [cb EXCEPT !.pc = "returned"]]
    /\ UNCHANGED <<crawlVars, normVars, formVars, hybridVars, deduplicator>>

InitHeadless ==
    /\ CrawlerIdle
    /\ HybridIdle
    /\ HeadlessIdle

NextHeadless ==
    \E c \in 1..NumCallbacks :
        \/ RequestCallbackReturns(c)
        \/ RequestCallbackParses(c)
        \/ deduplicatorGet(c)
        \/ deduplicatorSet(c)
        \/ performAdditionalAnalysisReturns(c)
        \/ WriteNavigation(c)
        \/ WriteResult(c)

SpecHeadless == InitHeadless /\ [][NextHeadless]_vars

-----------------------------------------------------------------------------
\* The Do loop of pkg/engine/hybrid: it ranges over the items the session's queue
\* pops, one iteration per item, and returns when the queue has no more.

\* crawlSession.Hostname
Hostname == "site"

\* the URLs of the requests: in scope, out of scope, not a URL, a filtered path,
\* and one whose scope validation fails
HybridURLs == {"https://site/", "https://other/", "javascript:void(0)",
               "https://site/logo.png", "https://site:x/"}

\* utils.IsURL
IsURL(URL) == URL # "javascript:void(0)"

\* Options.ValidatePath
ValidatePath(URL) == URL # "https://site/logo.png"

\* Options.ValidateScope: what it returns for a URL and the session's hostname
ValidateScope(URL, hostname) ==
    IF URL = "https://site:x/"
    THEN [inScope |-> FALSE, scopeErr |-> TRUE]
    ELSE [inScope |-> URL \in {"https://" \o hostname \o "/",
                               "https://" \o hostname \o "/logo.png"},
          scopeErr |-> FALSE]

\* an item of the queue that is no *navigation.Request
OtherItem == [kind |-> "other", URL |-> "", SkipValidation |-> FALSE]

\* the items the queue holds
Items ==
    [kind : {"request"}, URL : HybridURLs, SkipValidation : {FALSE}]
      \cup [kind : {"request"}, URL : {"https://site/", "https://other/", "https://site:x/"},
            SkipValidation : {TRUE}]
      \cup {OtherItem}

\* what doRequest returns: an error, no response, a redirect, a response
Outcomes == {"error", "nil", "redirect", "ok"}

\* the number of items Do has popped and acted on
popped == Cardinality({k \in DOMAIN doLog : doLog[k].ev \in {"skip", "request"}})

\* what the navigation requests of a response can be, with room for n more items
ChildrenUpTo(n) ==
    {<<>>} \cup (IF n >= 1 THEN {<<a>> : a \in Items} ELSE {})
           \cup (IF n >= 2 THEN {<<a, b>> : a \in Items, b \in Items} ELSE {})

\* an entry of doLog
event(ev, req, outcome, children) ==
    [n |-> IF ev \in {"skip", "request"} THEN popped + 1 ELSE popped,
     ev |-> ev, req |-> req, outcome |-> outcome, children |-> children]

\* the tests an item passes before it is requested: Do skips the item otherwise
skips(req) ==
    \/ req.kind # "request"
    \/ ~IsURL(req.URL)
    \/ ~ValidatePath(req.URL)
    \/ ValidateScope(req.URL, Hostname).scopeErr
    \/ (~req.SkipValidation /\ ~ValidateScope(req.URL, Hostname).inScope)

\* if inScope { c.Output(...) }, with the guard left out
outputForAlways(inScope, e) == <<e>>

\* if inScope { c.Output(...) }
outputFor(inScope, e) == IF inScope THEN <<e>> ELSE <<>>

\* the response is parsed and its navigation requests enqueued
parsed(outcome) == outcome = "ok" \/ (outcome = "redirect" /\ ~disableRedirects)

\* the session's context is cancelled while Do runs
CancelSession ==
    /\ doPc \in {"pop", "request"}
    /\ sessionCtx = "live"
    /\ sessionCtx' = "cancelled"
    /\ UNCHANGED <<crawlVars, normVars, formVars, headlessVars, sessionQueue,
                   disableRedirects, doPc, item, doRet, doLog>>

\* an item is popped and the context is cancelled: Do returns the context's error
DoCtxErr ==
    /\ doPc = "pop"
    /\ sessionQueue # <<>>
    /\ sessionCtx = "cancelled"
    /\ item' = Head(sessionQueue)
    /\ sessionQueue' = Tail(sessionQueue)
    /\ doPc' = "done"
    /\ doRet' = "ctxErr"
    /\ UNCHANGED <<crawlVars, normVars, formVars, headlessVars, sessionCtx,
                   disableRedirects, doLog>>

\* an item is popped and fails one of the tests: continue
DoSkips ==
    /\ doPc = "pop"
    /\ sessionQueue # <<>>
    /\ sessionCtx = "live"
    /\ skips(Head(sessionQueue))
    /\ item' = Head(sessionQueue)
    /\ sessionQueue' = Tail(sessionQueue)
    /\ doLog' = Append(doLog, event("skip", Head(sessionQueue), "", <<>>))
    /\ UNCHANGED <<crawlVars, normVars, formVars, headlessVars, sessionCtx,
                   disableRedirects, doPc, doRet>>

\* an item is popped and passes the tests: doRequest is called
DoRequests ==
    /\ doPc = "pop"
    /\ sessionQueue # <<>>
    /\ sessionCtx = "live"
    /\ ~skips(Head(sessionQueue))
    /\ item' = Head(sessionQueue)
    /\ sessionQueue' = Tail(sessionQueue)
    /\ doPc' = "request"
    /\ doLog' = Append(doLog, event("request", Head(sessionQueue), "", <<>>))
    /\ UNCHANGED <<crawlVars, normVars, formVars, headlessVars, sessionCtx,
                   disableRedirects, doRet>>

\* doRequest returns: Output, the error record, ParseResponse and Enqueue
DoRequestReturns ==
    \E outcome \in Outcomes :
    \E children \in ChildrenUpTo(MaxItems - (popped + Len(sessionQueue))) :
        /\ doPc = "request"
        /\ ~parsed(outcome) => children = <<>>
        /\ doLog' = doLog
                      \o <<event("response", item, outcome, <<>>)>>
                      \o outputFor(ValidateScope(item.URL, Hostname).inScope,
                                   event("output", item, outcome, <<>>))
                      \o (IF outcome = "error"
                          THEN <<event("writeErr", item, outcome, <<>>)>>
                          ELSE IF parsed(outcome)
                               THEN <<event("enqueue", item, outcome, children)>>
                               ELSE <<>>)
        /\ sessionQueue' = sessionQueue \o children
        /\ doPc' = "pop"
        /\ UNCHANGED <<crawlVars, normVars, formVars, headlessVars, sessionCtx,
                       disableRedirects, item, doRet>>

\* the queue has no more items: the range ends and Do returns nil
DoReturns ==
    /\ doPc = "pop"
    /\ sessionQueue = <<>>
    /\ doPc' = "done"
    /\ doRet' = "nil"
    /\ UNCHANGED <<crawlVars, normVars, formVars, headlessVars, sessionQueue, sessionCtx,
                   disableRedirects, item, doLog>>

InitHybrid ==
    /\ CrawlerIdle
    /\ HeadlessIdle
    /\ sessionQueue \in {<<a>> : a \in Items}
    /\ sessionCtx = "live"
    /\ disableRedirects \in BOOLEAN
    /\ doPc = "pop"
    /\ item = NoItem
    /\ doRet = "none"
    /\ doLog = <<>>

NextHybrid ==
    \/ CancelSession
    \/ DoCtxErr
    \/ DoSkips
    \/ DoRequests
    \/ DoRequestReturns
    \/ DoReturns

SpecHybrid == InitHybrid /\ [][NextHybrid]_vars

-----------------------------------------------------------------------------
\* Properties.

\* the navigation as FindNavigations returned it
AsFound(a) == [a EXCEPT !.OriginID = ""]

\* crawlFn has just returned e: the step that ends an iteration's call
CrawlFnReturns(E) == pc = "inflight" /\ pc' # "inflight" /\ err' \in E

\* the results the loop counts as a failure of the action, by the names of section 7:
\* ELEMENT_NOT_VISIBLE, NAV_FAILED, NO_NAV_POSSIBLE, MAX_SLEEP, COVERED,
\* INVISIBLE_SHAPE, SITE_SPECIFIC and ORIGIN_MISMATCH
SiteKinds == {"ErrElementNotVisible", "NavigationError", "ErrNoNavigationPossible",
              "MaxSleepCountError", "CoveredError", "NoPointerEventsError",
              "InvisibleShapeError", "SiteError", "OriginMismatch"}

\* C1: with MaxFailureCount = N > 0, once N crawlFn calls in a row have ended other
\* than OK, the loop dequeues no further action and the only step it takes from the
\* head of the iteration is to return success.
C1_FailureBudget ==
    [][(/\ pc = "head"
        /\ options.MaxFailureCount > 0
        /\ failStreak >= options.MaxFailureCount)
       => /\ trace' = trace
          /\ crawlQueue' = crawlQueue
          /\ pc' = "head" \/ (pc' = "done" /\ ret' = "nil")
          /\ ENABLED (Next /\ pc' = "done")]_vars

\* C1: N failures in a row ended the crawl with success, the timer not being the cause.
C1_Witness ==
    /\ pc = "done"
    /\ ret = "nil"
    /\ options.MaxFailureCount = FailureLimit
    /\ failStreak = FailureLimit
    /\ ~timerFired

\* C2: no two actions ever enqueued have the same hash, so of two actions with one hash
\* at most one is dequeued; a page that yields a navigation twice (P1 yields nHome
\* twice) gets it enqueued exactly once.
C2_Dedup ==
    /\ \A i, j \in DOMAIN offered :
          i # j => Hash(offered[i]) # Hash(offered[j])
    /\ \A i, j \in DOMAIN trace :
          i # j => Hash(trace[i]) # Hash(trace[j])
    /\ (pageState.UniqueID = "P1" /\ pageState.inScope /\ err = "nil")
          => Cardinality({i \in DOMAIN offered : AsFound(offered[i]) = nHome}) = 1

\* C2: P1 was the first page to yield nHome, twice, and one action came of it.
C2_Witness ==
    /\ pageState.UniqueID = "P1"
    /\ err = "nil"
    /\ Cardinality({i \in DOMAIN offered : offered[i] = [nHome EXCEPT !.OriginID = "P1"]}) = 1

\* C3: with MaxDepth = D > 0 an action deeper than D is discarded at the dequeue: no
\* page is borrowed for it, crawlFn is not called and the executor never gets it.
C3_DepthBound ==
    (options.MaxDepth > 0 /\ action.Depth > options.MaxDepth)
        => (fate = "discarded" /\ pageHeld = 0 /\ pc # "inflight")

\* C3: an action of depth 2 was dequeued under MaxDepth = 1 and discarded.
C3_Witness ==
    /\ options.MaxDepth = DepthLimit
    /\ action.Depth > options.MaxDepth
    /\ fate = "discarded"

OtherKinds == {"GraphError", "DiagnosticsError"}

C6_RecoverableFailure ==
    /\ [][CrawlFnReturns(SiteKinds)
          => /\ consecutiveFailures' = consecutiveFailures + 1
             /\ pc' = "head"
             /\ ret' = "none"
             /\ crawlQueue' = crawlQueue
             /\ action \notin Range(crawlQueue')]_vars
    /\ [][CrawlFnReturns({"nil"}) => (consecutiveFailures' = 0 /\ pc' = "head")]_vars
    /\ [](Range(trace) \cap Range(crawlQueue) = {})

\* C6: a second failure in a row, a navigation error, was counted.
C6_Witness ==
    /\ pc = "head"
    /\ err = "NavigationError"
    /\ consecutiveFailures = 2
    /\ action \notin Range(crawlQueue)

\* C7: Crawl returns nil when it ends at the head of an iteration because the timer
\* fired, the failure budget is spent or the queue is empty, and when crawlFn
\* returns ErrNoCrawlingAction.
C7_SuccessfulEndings ==
    /\ [][(/\ pc = "head"
           /\ pc' = "done"
           /\ (timerFired \/ tooManyFailures \/ crawlQueue = <<>>))
          => ret' = "nil"]_vars
    /\ [][CrawlFnReturns({"ErrNoCrawlingAction"})
          => (pc' = "done" /\ ret' = "nil")]_vars
    /\ [][(pc = "head" /\ pc' = "done" /\ ret' # "nil")
          => (crawlQueue # <<>> /\ ~timerFired /\ ~tooManyFailures)]_vars

\* C7: crawlFn returned ErrNoCrawlingAction and Crawl returned nil.
C7_Witness ==
    /\ pc = "done"
    /\ err = "ErrNoCrawlingAction"
    /\ ret = "nil"

\* C8: once the deadline timer has fired no action is dequeued any more: the action in
\* flight, if any, ends, and the only step from the head of an iteration is the
\* return of nil.
C8_DeadlineBound ==
    [][timerFired
       => /\ trace' = trace
          /\ fate' \in {fate, "executed", "not executed"}
          /\ pc = "head" => (pc' = "head" \/ (pc' = "done" /\ ret' = "nil"))]_vars

\* C8: the timer fired, Crawl returned nil and left actions in the queue.
C8_Witness ==
    /\ options.MaxCrawlDuration > 0
    /\ timerFired
    /\ pc = "done"
    /\ ret = "nil"
    /\ Len(trace) >= 2
    /\ crawlQueue # <<>>

\* C9: the actions dequeued so far are, in order, the first ones inserted, and what is
\* left in the queue are the later ones in insertion order; when crawlFn has
\* returned nil for a page in scope, every navigation of that page that is no
\* logout control has been offered.
C9_Fifo ==
    /\ offered = trace \o crawlQueue
    /\ (pc = "head" /\ err = "nil" /\ pageState.UniqueID # "" /\ pageState.inScope)
          => \A k \in DOMAIN FindNavigations(pageState.UniqueID) :
                LET nav == FindNavigations(pageState.UniqueID)[k]
                IN  ~skipLogout(nav) => \E i \in DOMAIN offered : AsFound(offered[i]) = nav

\* C9: four actions were inserted from two pages and dequeued in that order.
C9_Witness ==
    /\ Len(trace) = 4
    /\ offered = trace
    /\ offered[2].OriginID # offered[4].OriginID

\* the elements whose text or href the logout pattern matches
LogoutElements ==
    {e \in DOMAIN Elements :
        MatchString(Elements[e].TextContent) \/ MatchString(Elements[e].href)}

\* C10: no action whose element's text or href matches the logout pattern is ever
\* offered to the queue.
C10_LogoutFilter ==
    \A i \in DOMAIN offered : offered[i].Element \notin LogoutElements

\* C10: both logout controls, one by its text and one by its href, were found and
\* recorded in uniqueActions, and other navigations of their pages were offered.
C10_Witness ==
    /\ LogoutElements = {"eOut", "eBye"}
    /\ {Hash(nOut), Hash(nBye)} \subseteq uniqueActions
    /\ Len(offered) >= 4

RECURSIVE ReachableFrom(_, _, _)
\* the nodes a directed path of at most k edges reaches from the set R
ReachableFrom(R, edges, k) ==
    IF k = 0 THEN R
    ELSE ReachableFrom(R \cup {e[2] : e \in {d \in edges : d[1] \in R}}, edges, k - 1)

\* the nodes of the graph that have a directed path from EMPTY_PAGE
Rooted(graph) ==
    ReachableFrom({emptyPageHash} \cap graph.nodes, graph.edges, Cardinality(PageIDs))

\* C11 as stated: when a crawl has ended with success, EMPTY_PAGE is a node of the graph
\* and every other node has an incoming edge and a directed path from EMPTY_PAGE.
C11_GraphConnected ==
    (pc = "done" /\ ret = "nil")
        => /\ emptyPageHash \in crawlGraph.nodes
           /\ \A n \in crawlGraph.nodes \ {emptyPageHash} :
                 /\ \E e \in crawlGraph.edges : e[2] = n
                 /\ n \in Rooted(crawlGraph)

\* C12: when GetPageFromPool fails, Crawl ends at once with that error: the action
\* dequeued in that iteration is not handed to crawlFn, no page is held, and the
\* queue, the graph and the failure counter stay as the dequeue left them.
C12_PoolFailureIsFatal ==
    /\ [][(pc = "head" /\ fate' = "no page")
          => /\ pc' = "done"
             /\ ret' = "PoolError"
             /\ pageHeld' = 0
             /\ crawlQueue' = Tail(crawlQueue)
             /\ crawlGraph' = crawlGraph
             /\ consecutiveFailures' = consecutiveFailures]_vars
    /\ [](fate = "no page"
          => (pc = "done" /\ ret = "PoolError" /\ action = trace[Len(trace)]))
    /\ [](ret = "PoolError" => fate = "no page")

\* C12: the pool failed for the third action dequeued, with more actions waiting.
C12_Witness ==
    /\ ret = "PoolError"
    /\ fate = "no page"
    /\ Len(trace) = 3
    /\ crawlQueue # <<>>


\* t occurs in s
Contains(s, t) ==
    \E i \in 1..(Len(s) - Len(t) + 1) : SubSeq(s, i, i + Len(t) - 1) = t

\* C13 as stated: Normalizer.Apply is idempotent: applied to its own result it returns
\* that result.
C13_Idempotent ==
    call = "Normalizer.Apply twice" => again = result

\* one token of every pattern class, and a phone number without the "+"
classTokens == removedTokens \cup {<<"1","2","3","4","5","6","7","8","9","0">>}

\* C14 as stated: a text that is one token of a default pattern class and nothing else
\* is normalized to the empty string, after trimming.
C14_Erasure ==
    (call = "TextNormalizer.Apply" /\ text \in classTokens)
        => Trim(result, WhiteSpace) = <<>>

\* C15: what TextNormalizer.Apply returns is the text with matches deleted: it holds
\* none of the tokens of the test that the text held (emails in either case, valid
\* IPv4 addresses, the UUID, relative dates, prices, phone numbers, SSNs, ISO and US
\* timestamps), and it still holds every dotted quad with an octet above 255.
C15_TestTokens ==
    call = "TextNormalizer.Apply"
        => /\ Len(result) <= Len(text)
           /\ \A t \in removedTokens : ~Contains(result, t)
           /\ \A t \in keptTokens : Contains(text, t) => Contains(result, t)

\* C15: the text of the test was normalized: the valid addresses are gone, the quad
\* with octets of 999 is left.
C15_Witness ==
    /\ call = "TextNormalizer.Apply"
    /\ text = testText
    /\ Contains(text, <<"8",".","8",".","8",".","8">>)
    /\ ~Contains(result, <<"8",".","8",".","8",".","8">>)
    /\ Contains(result, <<"9","9","9",".","9","9","9",".","9","9","9",".","9","9","9">>)


\* C16 as stated: when the URL after the action is out of scope, the page state the
\* action produced is recorded in the crawl graph all the same; only the collection of
\* navigations is left out.
C16_OutOfScopeRecorded ==
    (fate = "executed" /\ ~pageState.inScope)
        => pageState.UniqueID \in crawlGraph.nodes

\* C17: whenever an action other than LoadURL has been handed to the executor, the page
\* showed the state of the action's OriginID at that moment; and when the page showed
\* that state already, navigateBackToStateOrigin was not called.
C17_OriginDisplayed ==
    (fate = "executed" /\ action.Type # "LoadURL")
        => /\ browser.shown = action.OriginID
           /\ browser.current = action.OriginID => ~browser.replayed

\* C17: a click was executed after the page had been taken back to the click's origin.
C17_Witness ==
    /\ fate = "executed"
    /\ action.Type = "LeftClick"
    /\ browser.current # action.OriginID
    /\ browser.replayed
    /\ browser.shown = action.OriginID

\* C18 as stated: the dedup key of a navigation covers its origin, so a navigation found
\* on a page is enqueued for that page even when a navigation of the same type and
\* selector was found on another page before: once the navigations of a page have been
\* handled, each of them that is no logout control was offered with that page as origin.
C18_DistinctOrigins ==
    (fate = "executed" /\ pageState.UniqueID # "" /\ pageState.inScope)
        => \A nav \in Range(FindNavigations(pageState.UniqueID)) :
               ~skipLogout(nav)
                   => [nav EXCEPT !.OriginID = pageState.UniqueID] \in Range(offered)

\* C19 as stated: every action that was ever in the queue and is a LoadURL has
\* EMPTY_PAGE as its OriginID.
C19_LoadURLOrigin ==
    \A a \in Range(offered) : a.Type = "LoadURL" => a.OriginID = emptyPageHash

\* C20: when navigateBackToStateOrigin fails (a replayed action failed, or the page
\* after the replay is not the origin), the action is not executed, the graph, the
\* queue and the dedup set stay as they were, consecutiveFailures grows by one and the
\* loop goes to its next iteration.
C20_OriginFailure ==
    [][(pc = "inflight" /\ browser'.replayed /\ browser'.shown = "")
       => /\ fate' = "not executed"
          /\ crawlGraph' = crawlGraph
          /\ crawlQueue' = crawlQueue
          /\ offered' = offered
          /\ uniqueActions' = uniqueActions
          /\ consecutiveFailures' = consecutiveFailures + 1
          /\ pc' = "head"
          /\ ret' = "none"]_vars

\* C20: the way back to the origin of a click ended in a mismatch; the click was not
\* executed, the failure was counted and the loop is at its head with actions left.
C20_Witness ==
    /\ pc = "head"
    /\ browser.replayed
    /\ browser.shown = ""
    /\ err = "OriginMismatch"
    /\ action.Type = "LeftClick"
    /\ fate = "not executed"
    /\ consecutiveFailures = 2
    /\ crawlQueue # <<>>

\* C21 as stated: an action that was processed to the end returns ErrNoCrawlingAction
\* exactly when its processing added no navigation to the queue and the queue is empty,
\* and nil otherwise.
C21_NoMoreActions ==
    [][(/\ pc = "inflight"
        /\ fate' = "executed"
        /\ pageState' # NoPageState
        /\ err' \in {"nil", "ErrNoCrawlingAction"})
       => (err' = "ErrNoCrawlingAction" <=> (offered' = offered /\ crawlQueue' = <<>>))]_vars

\* C22: the page state built after an action has as OriginID the hash of the page the
\* action was executed from (the hash after the origin step, before the action), and
\* every navigation that its processing puts into the queue has the page state's
\* UniqueID as OriginID.
C22_OriginTags ==
    [][(pc = "inflight" /\ pageState' # NoPageState)
       => /\ pageState'.OriginID = browser'.shown
          /\ action.Type # "LoadURL" => pageState'.OriginID = action.OriginID
          /\ Len(crawlQueue') >= Len(crawlQueue)
          /\ \A j \in 1..Len(crawlQueue') :
                 IF j <= Len(crawlQueue)
                 THEN crawlQueue'[j] = crawlQueue[j]
                 ELSE crawlQueue'[j].OriginID = pageState'.UniqueID]_vars

\* C22: a click found on P1 was executed from P1 after a replay and led to P2; the
\* state is tagged with P1 and the navigations of P2 are in the queue with origin P2.
C22_Witness ==
    /\ fate = "executed"
    /\ action.Type = "LeftClick"
    /\ browser.replayed
    /\ pageState.UniqueID = "P2"
    /\ pageState.OriginID = "P1"
    /\ crawlQueue # <<>>
    /\ crawlQueue[Len(crawlQueue)].OriginID = "P2"

\* C23: when a scope validator is set and the URL after the action is out of scope, no
\* navigation is enqueued and uniqueActions stays as it was; crawlFn returns
\* ErrNoCrawlingAction when the queue is empty, which ends the crawl with success, and
\* nil otherwise, which resets consecutiveFailures as any success does.
C23_OutOfScope ==
    [][(pc = "inflight" /\ pageState' # NoPageState /\ ~pageState'.inScope)
       => /\ options.ScopeValidator
          /\ crawlQueue' = crawlQueue
          /\ offered' = offered
          /\ uniqueActions' = uniqueActions
          /\ err' = (IF crawlQueue = <<>> THEN "ErrNoCrawlingAction" ELSE "nil")
          /\ err' = "nil" => (consecutiveFailures' = 0 /\ pc' = "head" /\ ret' = "none")
          /\ err' = "ErrNoCrawlingAction" => (pc' = "done" /\ ret' = "nil")]_vars

\* C23: the third action of a crawl ended on a page out of scope with actions left in
\* the queue: crawlFn returned nil and the counter is 0.
C23_Witness ==
    /\ fate = "executed"
    /\ ~pageState.inScope
    /\ crawlQueue # <<>>
    /\ err = "nil"
    /\ pc = "head"
    /\ consecutiveFailures = 0
    /\ Len(trace) = 3

\* C24: a page is borrowed per action and given back exactly once when crawlFn returns,
\* with or without an error; while the action is processed the page is bound to the
\* crawl's context, so that a cancelled context can end any of its browser calls; a
\* crawl holds at most one page, and none at the head of an iteration or after Crawl
\* has returned.
C24_PageReturned ==
    /\ [](pageHeld = (IF pc = "inflight" THEN 1 ELSE 0))
    /\ []((pc = "inflight" /\ ctxDone)
            => ENABLED (CrawlFnBrowserFails /\ err' = "ContextCanceled"))
    /\ [][(pc = "inflight" /\ pc' # "inflight") => pageHeld' = pageHeld - 1]_vars
    /\ [][pageHeld' # pageHeld => (pc = "inflight") # (pc' = "inflight")]_vars

\* C24: the second action of a crawl was executed and failed: its page is back in the
\* pool when the loop is at its head again.
C24_Witness ==
    /\ pc = "head"
    /\ Len(trace) = 2
    /\ fate = "executed"
    /\ err = "NavigationError"
    /\ pageHeld = 0

\* the pipeline with normalizeDocument before, between and after the DOM and the text
\* normalizer
threePasses(txt) ==
    LET first == normalizeDocument(txt)
        second == normalizeDocument(DOMNormalizer_Apply(first))
    IN  normalizeDocument(TextNormalizer_Apply(second))

\* C25 as stated: Normalizer.Apply runs normalizeDocument, the DOM normalizer,
\* normalizeDocument, the text normalizer and normalizeDocument, in this order, so
\* that its result is that of the three passes around the two normalizers.
C25_ThreePasses ==
    call = "Normalizer.Apply" => result = threePasses(text)

\* the suggestions that resolve to a captured element and have a value, in order
applicable(run) ==
    SelectSeq(run.suggestions,
              LAMBDA sg : sg[2] # "" /\ \E p \in run.elementMap : p[1] = sg[1])

\* the element a field name resolves to
elementOf(run, fieldName) == (CHOOSE p \in run.elementMap : p[1] = fieldName)[2]

\* C26 as stated: in a form fill, for every suggestion with a value whose field name
\* resolves to a captured INPUT element of a type other than checkbox and radio, the
\* value is typed into that element.
C26_InputTyped ==
    (formRun.pc # "idle" /\ options.AutomaticFormFill)
        => \A sg \in Range(applicable(formRun)) :
               LET el == elementOf(formRun, sg[1]) IN
               (form[el].TagName = "INPUT" /\ form[el].Type \notin {"checkbox", "radio"})
                   => \E c \in Range(formRun.log) :
                          c.op = "Input" /\ c.el = el /\ c.arg = sg[2]

\* the fields that can be the submit control: their XPath resolved and their type is
\* submit
submitCandidates ==
    {i \in 1..Len(form) : /\ form[i].XPath # "" /\ form[i].resolves
                          /\ form[i].TagName \in {"INPUT", "BUTTON"}
                          /\ form[i].Type = "submit"}

\* C27: no INPUT of type submit or button is in the list sent to the suggestion
\* provider; the submit control is the first field in the order of the form that is an
\* INPUT or BUTTON of type submit and whose XPath resolved, it is the control clicked at
\* the end, and no INPUT of type button is ever clicked.
C27_SubmitControl ==
    (formRun.pc # "idle" /\ options.AutomaticFormFill)
        => /\ \A k \in Range(formRun.formFields) :
                  ~(form[k].TagName = "INPUT" /\ form[k].Type \in {"submit", "button"})
           /\ formRun.submitButton =
                  (IF submitCandidates = {} THEN 0
                   ELSE CHOOSE i \in submitCandidates : \A j \in submitCandidates : i <= j)
           /\ \A n \in 1..Len(formRun.log) :
                  formRun.log[n].op = "Click"
                      => /\ form[formRun.log[n].el].Type # "button"
                         /\ form[formRun.log[n].el].Type = "submit"
                                => (n = Len(formRun.log)
                                    /\ formRun.log[n].el = formRun.submitButton)
           /\ formRun.submitButton # 0
                  => formRun.log[Len(formRun.log)].op = "Click"

\* C27: of an INPUT of type button, an INPUT of type submit and a BUTTON of type
\* submit, in this order, the second was clicked.
C27_Witness ==
    /\ options.AutomaticFormFill
    /\ form = <<fInputButton, fSubmit, fButton>>
    /\ formRun.pc = "newPageState"
    /\ formRun.submitButton = 2
    /\ formRun.log[Len(formRun.log)] = Call("Click", 2, "", TRUE)

\* the calls of the log with one of these operations
callsOf(run, ops) == SelectSeq(run.log, LAMBDA c : c.op \in ops)

\* C28: a call that fails while a suggestion is applied does not end the form fill:
\* every suggestion that resolves to an element is taken up, in the order of the
\* suggestions, the submit control is clicked if there is one, and processForm fails
\* exactly when that click fails.
C28_FieldFailure ==
    (formRun.pc # "idle" /\ options.AutomaticFormFill)
        => /\ LET evals == callsOf(formRun, {"Eval"})
                  sugs == applicable(formRun)
              IN  /\ Len(evals) = Len(sugs)
                  /\ \A k \in 1..Len(sugs) : evals[k].el = elementOf(formRun, sugs[k][1])
           /\ formRun.submitButton # 0
                  => formRun.log[Len(formRun.log)].el = formRun.submitButton
           /\ formRun.err # "nil"
                  <=> (formRun.submitButton # 0 /\ form[formRun.submitButton].fails)

\* C28: typing into the first field failed; the second field was filled all the same,
\* the submit control was clicked and the action succeeded.
C28_Witness ==
    /\ options.AutomaticFormFill
    /\ form = <<fTextFails, fText, fSubmit>>
    /\ formRun.pc = "newPageState"
    /\ formRun.err = "nil"
    /\ callsOf(formRun, {"Input", "Click"})
           = <<Call("Input", 1, "v", FALSE), Call("Input", 2, "v", TRUE),
               Call("Click", 3, "", TRUE)>>

\* C29: with AutomaticFormFill off, a FillForm action makes no call on the browser and
\* succeeds, and crawlFn goes on to build the page state.
C29_FormFillDisabled ==
    /\ [](~options.AutomaticFormFill => (formRun.log = <<>> /\ formRun.err = "nil"))
    /\ [][(~options.AutomaticFormFill /\ formRun.pc = "returned")
            => formRun'.pc = "newPageState"]_vars
    /\ []((~options.AutomaticFormFill /\ formRun.pc = "returned") => ENABLED FillFormDone)

\* C29: a form with a field and a submit control whose click would fail was left
\* alone, and crawlFn is at newPageState.
C29_Witness ==
    /\ ~options.AutomaticFormFill
    /\ form = <<fText, fButtonFails>>
    /\ formRun.pc = "newPageState"
    /\ formRun.log = <<>>

\* C30: at every point of the loop consecutiveFailures is the number of actions that
\* failed since the last action that succeeded, or since the start; an action dropped
\* for its depth leaves it as it is; and with MaxFailureCount = N > 0 it never exceeds N.
C30_FailureCount ==
    /\ [](consecutiveFailures = failStreak)
    /\ [][(trace' # trace /\ fate' = "discarded")
            => consecutiveFailures' = consecutiveFailures]_vars
    /\ [](options.MaxFailureCount > 0 => consecutiveFailures <= options.MaxFailureCount)

\* C30: the counter has reached MaxFailureCount in a crawl that dropped an action for
\* its depth on the way.
C30_Witness ==
    /\ pc = "head"
    /\ options.MaxFailureCount > 0
    /\ consecutiveFailures = options.MaxFailureCount
    /\ options.MaxDepth > 0
    /\ \E i \in 1..Len(trace) : trace[i].Depth > options.MaxDepth

\* C31: with MaxCrawlDuration = 0 and MaxFailureCount = 0, when every call returns,
\* Crawl returns in the end: every iteration takes an action from the queue and an
\* action is put into it only for a hash that uniqueActions did not hold.
C31_Terminates == <>(pc = "done")

\* C31: a crawl without deadline and failure budget has returned after it drained a
\* queue that had held navigations of two pages.
C31_Witness ==
    /\ options.MaxCrawlDuration = 0
    /\ options.MaxFailureCount = 0
    /\ pc = "done"
    /\ ret = "nil"
    /\ crawlQueue = <<>>
    /\ {"P1", "P2"} \subseteq {offered[i].OriginID : i \in 1..Len(offered)}
    /\ Len(trace) = Len(offered)

\* C32: when crawlFn fails on the way back to the origin, in the execution of the
\* action, in the construction of the page state or in FindNavigations, the queue,
\* uniqueActions and the graph are what they were when the action was dequeued; while
\* an action is processed they change only in the step that has obtained the
\* navigations of a page in scope.
C32_FailureFrame ==
    /\ [][(pc = "inflight" /\ pc' # "inflight" /\ pageState' = NoPageState)
            => /\ err' \notin {"nil", "ErrNoCrawlingAction"}
               /\ crawlQueue' = crawlQueue
               /\ offered' = offered
               /\ uniqueActions' = uniqueActions
               /\ crawlGraph' = crawlGraph]_vars
    /\ [][(/\ pc = "inflight"
           /\ \/ crawlQueue' # crawlQueue
              \/ uniqueActions' # uniqueActions
              \/ crawlGraph' # crawlGraph)
            => (pageState' # NoPageState /\ pageState'.inScope)]_vars
    /\ [](pc = "inflight" => crawlQueue = SubSeq(offered, Len(trace) + 1, Len(offered)))

\* C32: the second action of a crawl was executed and then failed; the navigations of
\* the first are in the queue and in uniqueActions as they were.
C32_Witness ==
    /\ pc = "head"
    /\ Len(trace) = 2
    /\ fate = "executed"
    /\ err = "SiteError"
    /\ pageState = NoPageState
    /\ Len(crawlQueue) = Len(offered) - 2
    /\ crawlQueue # <<>>
    /\ uniqueActions # {}
    /\ crawlGraph.nodes = {emptyPageHash, "P2"}

\* C33: uniqueActions only grows, within a Crawl call and from one call to the next
\* on the same Crawler; a Crawl call starts with a queue that holds the seed and a
\* graph that holds EMPTY_PAGE; a navigation is enqueued only when no call so far has
\* recorded its hash; and the hash of every navigation found is recorded, that of a
\* navigation dropped as a logout control included.
C33_DedupPersists ==
    /\ [][uniqueActions \subseteq uniqueActions']_vars
    /\ [][calls' # calls
            => /\ uniqueActions' = uniqueActions
               /\ crawlQueue' = <<seedAction>>
               /\ \/ crawlGraph' = [nodes |-> {emptyPageHash}, edges |-> {}]
                  \/ (pc' = "done" /\ ret' = "GraphError")]_vars
    /\ [][(pc = "inflight" /\ Len(offered') > Len(offered))
            => \A j \in (Len(offered) + 1)..Len(offered') :
                   /\ Hash(AsFound(offered'[j])) \notin uniqueActions
                   /\ Hash(AsFound(offered'[j])) \in uniqueActions']_vars
    /\ [][(pc = "inflight" /\ pageState' # NoPageState /\ pageState'.inScope)
            => \A nav \in Range(FindNavigations(pageState'.UniqueID)) :
                   Hash(nav) \in uniqueActions']_vars

\* C33: the second Crawl call on a Crawler loaded page P1 again: its navigations,
\* recorded by the first call, were not enqueued, and the hash of the logout control
\* that the first call dropped is in the set.
C33_Witness ==
    /\ calls = 2
    /\ pc = "head"
    /\ fate = "executed"
    /\ err = "nil"
    /\ pageState.UniqueID = "P1"
    /\ offered = <<seedAction>>
    /\ crawlQueue = <<>>
    /\ Hash(nHome) \in uniqueActions
    /\ Hash(nOut) \in uniqueActions

\* C34: however the invocations of the request callback interleave, no URL is
\* written twice as a navigation request derived from a response, and an invocation
\* whose result is nil, has no request or has a request URL out of scope writes nothing.
C34_EmittedOnce ==
    /\ \A j, k \in DOMAIN written :
           (written[j].derived /\ written[k].derived /\ written[j].URL = written[k].URL)
               => j = k
    /\ \A k \in DOMAIN written : ~dropped(callbacks[written[k].by].rr)

\* the entries of doLog that are ev
entries(ev) == {k \in DOMAIN doLog : doLog[k].ev = ev}

\* the request of entry k is a URL that passes the path filter and whose scope
\* validation succeeds and finds it out of scope
outOfScope(k) ==
    /\ doLog[k].req.kind = "request"
    /\ IsURL(doLog[k].req.URL)
    /\ ValidatePath(doLog[k].req.URL)
    /\ ~ValidateScope(doLog[k].req.URL, Hostname).scopeErr
    /\ ~ValidateScope(doLog[k].req.URL, Hostname).inScope

\* C35: the hybrid Do loop works on one item at a time: what it does with an item
\* comes before all it does with the next, and at most one request is without its
\* response.  A result, success or error, is passed to Output only for a request
\* whose URL is in scope.  A request with SkipValidation whose URL is out of scope
\* is requested, and its response parsed and enqueued, but never passed to Output;
\* without SkipValidation it is never requested.  (The error record that Do writes
\* with WriteErr when the request fails is no call of Output, and is written
\* whatever the scope.)
C35_OutputInScope ==
    /\ \A k \in DOMAIN doLog : k > 1 => doLog[k - 1].n <= doLog[k].n
    /\ Cardinality(entries("request")) - Cardinality(entries("response"))
           = (IF doPc = "request" THEN 1 ELSE 0)
    /\ \A k \in entries("output") :
           /\ ValidateScope(doLog[k].req.URL, Hostname).inScope
           /\ doLog[k - 1].ev = "response"
           /\ doLog[k - 1].n = doLog[k].n
    /\ \A k \in DOMAIN doLog :
           (outOfScope(k) /\ doLog[k].req.SkipValidation)
               => /\ doLog[k].ev \notin {"skip", "output"}
                  /\ (doLog[k].ev = "response" /\ parsed(doLog[k].outcome))
                         => (k < Len(doLog) /\ doLog[k + 1].ev = "enqueue")
    /\ \A k \in DOMAIN doLog :
           (outOfScope(k) /\ ~doLog[k].req.SkipValidation) => doLog[k].ev = "skip"

\* C35: Do has returned after it requested an out-of-scope URL with SkipValidation,
\* enqueued what its response held, passed an in-scope result to Output and
\* skipped an out-of-scope request without SkipValidation.
C35_Witness ==
    /\ doPc = "done"
    /\ doRet = "nil"
    /\ \E k \in entries("enqueue") :
           /\ outOfScope(k)
           /\ doLog[k].req.SkipValidation
           /\ doLog[k].children # <<>>
    /\ entries("output") # {}
    /\ \E k \in entries("skip") : outOfScope(k)

====
